---------------------------- MODULE Spec2Model ----------------------------
(***************************************************************************)
(* Model of the indexing and retrieval engine of IR-GlobalWarming:         *)
(*   src/indexing/indexer.py        InvertedIndex, TFIDFCalculator         *)
(*   src/retrieval/search_engine.py SearchEngine                           *)
(*   src/evaluation/evaluator.py    IREvaluator                            *)
(*   src/main.py                    IRSystemGUI (its three components)     *)
(*                                                                         *)
(* Numbers.  The code computes with Python floats.  Here an IDF value      *)
(* log10(N / df) is kept as the integer LOG10[N] - LOG10[df], in units of  *)
(* 1/40 (40 * log10 of 2, 3, 5, 7 rounds to 12, 19, 28, 34, and the table  *)
(* is additive over products, so equal ratios give equal values); a weight *)
(* tf * idf is the exact rational <<num, den>> of such units; a cosine     *)
(* score is kept as the exact rational square of the cosine, carrying the  *)
(* sign of the dot product (squaring is monotone on values >= 0, so order, *)
(* ties and sign are those of the cosine over the reals).  Rounding of the *)
(* floating-point operations is not modelled.                              *)
(***************************************************************************)
EXTENDS Integers, Sequences, FiniteSets, TLC

\* ------------------------------------------------------------------ bounds
MaxDocs == 2        \* add_document is called at most MaxDocs times
MaxLen == 2         \* a token list (a document's, a query's) has at most MaxLen tokens
MaxMinDf == 2       \* prune_terms is called with min_df in 0..MaxMinDf
MaxCorpus == 3      \* a search session indexes at most MaxCorpus documents
MaxEvalDocs == 3    \* the evaluator is given document ids 1..MaxEvalDocs
MaxRank == 3        \* a ranking given to the evaluator has at most MaxRank entries
MaxBatch == 2       \* a batch has at most MaxBatch queries, each ranking at most MaxBatch entries

Terms == {"a", "b"}                 \* the tokens documents and queries use
DocIds == {1, 2}                    \* the document ids callers pass
CorpusIds == 1..MaxCorpus           \* the ids of a search session's documents
AllIds == DocIds \cup CorpusIds
Ratios == {<<1, 2>>, <<1, 1>>}      \* max_df_ratio as num/den: 0.5, 1.0

None == "None"

VARIABLES
    index,          \* InvertedIndex.index: term -> sequence of <<doc_id, freq>>
    documents,      \* InvertedIndex.documents: doc_id -> document
    doc_lengths,    \* InvertedIndex.doc_lengths: doc_id -> number of tokens
    total_docs,     \* InvertedIndex.total_docs
    idf_cache,      \* TFIDFCalculator.idf_cache: term -> idf
    calls,          \* history: the <<doc_id, tokens>> of every add_document call
    pruned,         \* history: whether prune_terms was ever called
    last,           \* the last call: its name, its arguments, what it returned
    file,           \* the file save_index writes: whether it exists, what it holds
    loaded,         \* a second InvertedIndex, the one load_index is called on
    build,          \* build_index_from_documents: its arguments and where it stands
    app,            \* IRSystemGUI: the objects its three component fields refer to
    readers,        \* the threads inside calculate_idf: their position and locals
    epoch           \* history: the number of changes of the index so far, and
                    \* the numbers at which each cached idf read df and total_docs

vars ==
    <<index, documents, doc_lengths, total_docs, idf_cache, calls, pruned, last,
      file, loaded, build, app, readers, epoch>>

store == <<index, documents, doc_lengths, total_docs>>

\* ----------------------------------------------------------------- helpers
RECURSIVE SeqsUpTo(_, _)
SeqsUpTo(S, n) ==
    IF n = 0 THEN {<<>>}
    ELSE LET shorter == SeqsUpTo(S, n - 1)
         IN  shorter \cup {Append(s, x) : s \in shorter, x \in S}

TokenLists == SeqsUpTo(Terms, MaxLen)

Queries == TokenLists               \* the term lists queries are made of

TopKs == 0..MaxCorpus               \* top_k: up to every document there can be

\* Every order in which the elements of the set S can be listed.
Perms(S) ==
    {s \in [1..Cardinality(S) -> S] : \A i, j \in DOMAIN s : s[i] = s[j] => i = j}

Abs(x) == IF x < 0 THEN -x ELSE x

Max(x, y) == IF x < y THEN y ELSE x

RECURSIVE Gcd(_, _)
Gcd(x, y) == IF y = 0 THEN Abs(x) ELSE Gcd(y, x % Abs(y))

\* Exact rationals <<num, den>>, den > 0, in lowest terms.
Rat(n, d) == LET g == Gcd(n, d) IN <<n \div g, d \div g>>

RatAdd(x, y) == Rat(x[1] * y[2] + y[1] * x[2], x[2] * y[2])

RatMul(x, y) == Rat(x[1] * y[1], x[2] * y[2])

\* x / y for y > 0.
RatDiv(x, y) == Rat(x[1] * y[2], x[2] * y[1])

\* x < y, by continued-fraction expansion (no products, so no overflow).
RECURSIVE RatLess(_, _)
RatLess(x, y) ==
    LET qx == x[1] \div x[2]
        qy == y[1] \div y[2]
        rx == x[1] % x[2]
        ry == y[1] % y[2]
    IN  IF qx # qy THEN qx < qy
        ELSE IF ry = 0 THEN FALSE
        ELSE IF rx = 0 THEN TRUE
        ELSE RatLess(<<y[2], ry>>, <<x[2], rx>>)

\* The sum of f[t] over t in S, f a mapping to rationals.
RECURSIVE RatSum(_, _)
RatSum(f, S) ==
    IF S = {} THEN <<0, 1>>
    ELSE LET t == CHOOSE x \in S : TRUE
         IN  RatAdd(f[t], RatSum(f, S \ {t}))

Range(s) == {s[i] : i \in DOMAIN s}

Count(s, x) == Cardinality({i \in DOMAIN s : s[i] = x})

\* The document record a caller passes for doc_id (opaque to the store), and
\* the falsy value (None, or an empty dict) of a call that passes none.
Doc(doc_id) == [id |-> doc_id]

NoDocument == [x \in {} |-> 0]

\* ----------------------------------------------------------- InvertedIndex
\* term_freq of add_document: token -> number of occurrences.
TermFreq(tokens) == [t \in Range(tokens) |-> Count(tokens, t)]

\* dict.get(term, []) on the postings map.
get_postings(idx, term) == IF term \in DOMAIN idx THEN idx[term] ELSE <<>>

get_document_frequency(idx, term) == Len(get_postings(idx, term))

\* Variant, not the code: one posting per occurrence of the term, none aggregated.
IndexAfterAddPerToken(idx, doc_id, tokens) ==
    LET tf == TermFreq(tokens)
    IN  [t \in DOMAIN idx \cup DOMAIN tf |->
            IF t \in DOMAIN tf
            THEN get_postings(idx, t) \o [i \in 1..tf[t] |-> <<doc_id, 1>>]
            ELSE idx[t]]

\* Variant, not the code: a document that already has a posting for the term gets no other.
IndexAfterAddDedup(idx, doc_id, tokens) ==
    LET tf == TermFreq(tokens)
        has(t) == \E i \in DOMAIN get_postings(idx, t) : get_postings(idx, t)[i][1] = doc_id
    IN  [t \in DOMAIN idx \cup DOMAIN tf |->
            IF t \in DOMAIN tf /\ ~has(t)
            THEN Append(get_postings(idx, t), <<doc_id, tf[t]>>)
            ELSE idx[t]]

\* The loop "self.index[term].append((doc_id, freq))": a missing key is
\* created with an empty list by the defaultdict.
IndexAfterAdd(idx, doc_id, tokens) ==
    LET tf == TermFreq(tokens)
    IN  [t \in DOMAIN idx \cup DOMAIN tf |->
            IF t \in DOMAIN tf
            THEN Append(get_postings(idx, t), <<doc_id, tf[t]>>)
            ELSE idx[t]]

\* Variant, not the code: the first value of a key is kept (dict.setdefault).
PutIfAbsent(d, k, v) == [x \in DOMAIN d \cup {k} |-> IF x \in DOMAIN d THEN d[x] ELSE v]

\* dict assignment d[k] = v.
Put(d, k, v) == [x \in DOMAIN d \cup {k} |-> IF x = k THEN v ELSE d[x]]

\* Variant, not the code: the counter follows the document-length map.
TotalRecounted(total, lens) == Cardinality(DOMAIN lens)

\* "self.total_docs += 1", after the document's length was recorded in lens.
TotalAfterAdd(total, lens) == total + 1

add_document(doc_id, tokens, document) ==
    /\ documents' = IF document # NoDocument THEN Put(documents, doc_id, document)
                    ELSE documents
    /\ index' = IndexAfterAdd(index, doc_id, tokens)
    /\ doc_lengths' = Put(doc_lengths, doc_id, Len(tokens))
    /\ total_docs' = TotalAfterAdd(total_docs, doc_lengths')
    /\ last' = [op |-> "add_document", args |-> <<>>, result |-> None]
    /\ UNCHANGED <<idf_cache, file, loaded>>

\* Variant, not the code: terms of document frequency min_df are removed as well.
TermsToRemoveLe(idx, total, min_df, ratio) ==
    {t \in DOMAIN idx :
        LET df == Len(idx[t])
        IN  \/ df <= min_df
            \/ (total > 0 /\ df * ratio[2] > ratio[1] * total)}

\* Variant, not the code: the ratio is taken over the number of terms of the
\* index, not over the number of documents.
TermsToRemoveOverTerms(idx, total, min_df, ratio) ==
    {t \in DOMAIN idx :
        LET df == Len(idx[t])
        IN  \/ df < min_df
            \/ (total > 0 /\ df * ratio[2] > ratio[1] * Cardinality(DOMAIN idx))}

\* terms_to_remove of prune_terms; max_df_ratio is ratio[1] / ratio[2].
TermsToRemove(idx, total, min_df, ratio) ==
    {t \in DOMAIN idx :
        LET df == Len(idx[t])
        IN  \/ df < min_df
            \/ (total > 0 /\ df * ratio[2] > ratio[1] * total)}

\* Variant, not the code: the loop stops after the first deletion.
RemoveOne(idx, removed) ==
    IF removed = {} THEN idx
    ELSE [t \in DOMAIN idx \ {CHOOSE x \in removed : TRUE} |-> idx[t]]

\* "for term in terms_to_remove: del self.index[term]"
Remove(idx, removed) == [t \in DOMAIN idx \ removed |-> idx[t]]

prune_terms(min_df, max_df_ratio) ==
    LET terms_to_remove == TermsToRemove(index, total_docs, min_df, max_df_ratio)
    IN  /\ index' = Remove(index, terms_to_remove)
        /\ last' = [op |-> "prune_terms", args |-> <<>>,
                    result |-> Cardinality(terms_to_remove)]
        /\ UNCHANGED <<documents, doc_lengths, total_docs, idf_cache, file, loaded>>

\* --------------------------------------------------------- TFIDFCalculator
\* 40 * log10(n), rounded, for n = 1..10.
LOG10 == <<0, 12, 19, 24, 28, 31, 34, 36, 38, 40>>

\* The value calculate_idf computes on a cache miss.
ComputeIdf(idx, total, term) ==
    LET doc_freq == get_document_frequency(idx, term)
    IN  IF doc_freq = 0 THEN 0 ELSE LOG10[total] - LOG10[doc_freq]

\* What calculate_idf returns: the cached value when there is one.
IdfResult(cache, idx, total, term) ==
    IF term \in DOMAIN cache THEN cache[term] ELSE ComputeIdf(idx, total, term)

\* The cache after calculate_idf(term).
CacheAfterIdf(cache, idx, total, term) ==
    IF term \in DOMAIN cache THEN cache
    ELSE Put(cache, term, ComputeIdf(idx, total, term))

calculate_idf(term) ==
    /\ idf_cache' = CacheAfterIdf(idf_cache, index, total_docs, term)
    /\ last' = [op |-> "calculate_idf", args |-> <<term>>,
                result |-> IdfResult(idf_cache, index, total_docs, term)]
    /\ UNCHANGED <<index, documents, doc_lengths, total_docs, file, loaded>>

\* calculate_tf with the default normalization, 'normalized'.
calculate_tf(term_freq, doc_length) == Rat(term_freq, Max(doc_length, 1))

\* The cache after calculate_idf was called for each of terms.
RECURSIVE CacheAfterAll(_, _, _, _)
CacheAfterAll(cache, idx, total, terms) ==
    IF terms = <<>> THEN cache
    ELSE CacheAfterAll(CacheAfterIdf(cache, idx, total, Head(terms)),
                       idx, total, Tail(terms))

\* The frequency of the first posting of doc_id in postings, 0 without one
\* (the loop of calculate_tfidf, which breaks at the first match).
FirstFreq(postings, doc_id) ==
    LET hits == {i \in DOMAIN postings : postings[i][1] = doc_id}
    IN  IF hits = {} THEN 0
        ELSE postings[CHOOSE i \in hits : \A j \in hits : i <= j][2]

\* dict.get(doc_id, 1) on the document-length map.
DocLength(lens, doc_id) == IF doc_id \in DOMAIN lens THEN lens[doc_id] ELSE 1

calculate_tfidf(cache, idx, lens, total, term, doc_id) ==
    LET term_freq == FirstFreq(get_postings(idx, term), doc_id)
    IN  IF term_freq = 0 THEN <<0, 1>>
        ELSE RatMul(calculate_tf(term_freq, DocLength(lens, doc_id)),
                    <<IdfResult(cache, idx, total, term), 1>>)

\* calculate_document_vector(doc_id, terms) with terms given: only the terms
\* of positive weight are kept.
calculate_document_vector(cache, idx, lens, total, doc_id, terms) ==
    LET w(t) == calculate_tfidf(cache, idx, lens, total, t, doc_id)
    IN  [t \in {x \in Range(terms) : w(x)[1] > 0} |-> w(t)]

\* calculate_query_vector: one entry per distinct query term, whatever its
\* weight.
calculate_query_vector(cache, idx, total, query_terms) ==
    LET term_freq == TermFreq(query_terms)
    IN  [t \in DOMAIN term_freq |->
            RatMul(calculate_tf(term_freq[t], Len(query_terms)),
                   <<IdfResult(cache, idx, total, t), 1>>)]

\* calculate_query_vector as a call: it asks calculate_idf for every query
\* term, which fills the cache.
CalculateQueryVector(query_terms) ==
    /\ idf_cache' = CacheAfterAll(idf_cache, index, total_docs, query_terms)
    /\ last' = [op |-> "calculate_query_vector", args |-> <<query_terms>>,
                result |-> calculate_query_vector(idf_cache, index, total_docs,
                                                  query_terms)]
    /\ UNCHANGED <<index, documents, doc_lengths, total_docs, file, loaded>>

\* The terms calculate_tfidf asks calculate_idf for: those doc_id has a
\* posting of (for the others it returns 0.0 before).
TermsHeld(idx, doc_id, terms) ==
    SelectSeq(terms, LAMBDA t : FirstFreq(get_postings(idx, t), doc_id) # 0)

\* calculate_document_vector(doc_id, terms) as a call.
CalculateDocumentVector(doc_id, terms) ==
    /\ idf_cache' = CacheAfterAll(idf_cache, index, total_docs,
                                  TermsHeld(index, doc_id, terms))
    /\ last' = [op |-> "calculate_document_vector", args |-> <<doc_id, terms>>,
                result |-> calculate_document_vector(idf_cache, index, doc_lengths,
                                                     total_docs, doc_id, terms)]
    /\ UNCHANGED <<index, documents, doc_lengths, total_docs, file, loaded>>

\* terms is None: the terms of the index with a posting of doc_id.
DocTerms(idx, doc_id) ==
    {t \in DOMAIN idx : \E i \in DOMAIN idx[t] : idx[t][i][1] = doc_id}

\* calculate_document_vector(doc_id) as a call; neither the vector nor the
\* cache depends on the order the set of terms is iterated in.
CalculateDocumentVectorAll(doc_id) ==
    LET terms == CHOOSE s \in Perms(DocTerms(index, doc_id)) : TRUE
    IN  /\ idf_cache' = CacheAfterAll(idf_cache, index, total_docs, terms)
        /\ last' = [op |-> "calculate_document_vector", args |-> <<doc_id>>,
                    result |-> calculate_document_vector(idf_cache, index, doc_lengths,
                                                         total_docs, doc_id, terms)]
        /\ UNCHANGED <<index, documents, doc_lengths, total_docs, file, loaded>>

\* ------------------------------------------------------------ SearchEngine
\* The square of the sum of the squared weights of a vector's norm.
NormSq(vector) ==
    RatSum([t \in DOMAIN vector |-> RatMul(vector[t], vector[t])], DOMAIN vector)

\* cosine_similarity, as the signed square of the cosine (see the header).
cosine_similarity(vector1, vector2) ==
    LET common_terms == DOMAIN vector1 \cap DOMAIN vector2
        dot_product == RatSum([t \in common_terms |->
                                  RatMul(vector1[t], vector2[t])], common_terms)
        magnitude1sq == NormSq(vector1)
        magnitude2sq == NormSq(vector2)
    IN  IF common_terms = {} THEN <<0, 1>>
        ELSE IF magnitude1sq[1] = 0 \/ magnitude2sq[1] = 0 THEN <<0, 1>>
        ELSE RatDiv(RatMul(dot_product, <<Abs(dot_product[1]), dot_product[2]>>),
                    RatMul(magnitude1sq, magnitude2sq))

\* The set of document ids of a postings list.
PostingDocs(idx, term) ==
    LET postings == get_postings(idx, term)
    IN  {postings[i][1] : i \in DOMAIN postings}

\* posting_lists of boolean_search: one set of document ids per query term.
PostingLists(idx, query_terms) ==
    [i \in DOMAIN query_terms |-> PostingDocs(idx, query_terms[i])]

\* Variant, not the code: the loop over posting_lists[1:] is missing.
BooleanAndFirstOnly(posting_lists) == posting_lists[1]

\* The AND branch: posting_lists[0] intersected with the others.
RECURSIVE BooleanAnd(_)
BooleanAnd(posting_lists) ==
    IF Len(posting_lists) = 1 THEN posting_lists[1]
    ELSE BooleanAnd(SubSeq(posting_lists, 1, Len(posting_lists) - 1))
            \cap posting_lists[Len(posting_lists)]

\* Variant, not the code: the OR loop runs over posting_lists[1:], as the AND loop does.
BooleanOrSkipFirst(posting_lists) ==
    UNION {posting_lists[i] : i \in DOMAIN posting_lists \ {1}}

\* The OR branch: the union of all the lists.
BooleanOr(posting_lists) ==
    UNION {posting_lists[i] : i \in DOMAIN posting_lists}

\* Variant, not the code: no test for an empty term list, AND of no terms
\* being every document of the index.
BooleanResultOfAll(idx, query_terms, operator) ==
    IF operator = "AND"
    THEN {d \in UNION {PostingDocs(idx, t) : t \in DOMAIN idx} :
             \A i \in DOMAIN query_terms : d \in PostingDocs(idx, query_terms[i])}
    ELSE BooleanOr(PostingLists(idx, query_terms))

\* The set boolean_search builds; any operator other than 'AND' is OR.
BooleanResult(idx, query_terms, operator) ==
    IF query_terms = <<>> THEN {}
    ELSE IF operator = "AND" THEN BooleanAnd(PostingLists(idx, query_terms))
    ELSE BooleanOr(PostingLists(idx, query_terms))

\* list(result): the order in which a set is listed is not specified.
boolean_search(query_terms, operator) ==
    /\ \E result \in Perms(BooleanResult(index, query_terms, operator)) :
          last' = [op |-> "boolean_search", args |-> <<query_terms, operator>>,
                   result |-> result]
    /\ UNCHANGED <<index, documents, doc_lengths, total_docs, idf_cache, file, loaded>>

\* candidate_docs: the documents with a posting for some query term.
CandidateDocs(idx, query_terms) ==
    UNION {PostingDocs(idx, query_terms[i]) : i \in DOMAIN query_terms}

\* scores before the sort: the candidates of positive similarity, in the
\* order the candidate set is iterated in.
RECURSIVE Scores(_, _, _, _, _, _, _)
Scores(cache, idx, lens, total, query_terms, query_vector, order) ==
    IF order = <<>> THEN <<>>
    ELSE LET doc_id == Head(order)
             similarity == cosine_similarity(query_vector,
                 calculate_document_vector(cache, idx, lens, total, doc_id, query_terms))
             rest == Scores(cache, idx, lens, total, query_terms, query_vector, Tail(order))
         IN  IF similarity[1] > 0 THEN <<<<doc_id, similarity>>>> \o rest ELSE rest

\* Variant, not the code: the scores are returned in the order they were computed in.
Unsorted(scores) == scores

\* scores.sort(key=score, reverse=True): stable, so entries of equal score
\* keep the order they had.
RECURSIVE SortByScore(_)
SortByScore(scores) ==
    IF scores = <<>> THEN <<>>
    ELSE LET sorted == SortByScore(SubSeq(scores, 1, Len(scores) - 1))
             x == scores[Len(scores)]
             k == IF \E i \in DOMAIN sorted : RatLess(sorted[i][2], x[2])
                  THEN (CHOOSE i \in DOMAIN sorted :
                           /\ RatLess(sorted[i][2], x[2])
                           /\ \A j \in DOMAIN sorted :
                                 RatLess(sorted[j][2], x[2]) => i <= j) - 1
                  ELSE Len(sorted)
         IN  SubSeq(sorted, 1, k) \o <<x>> \o SubSeq(sorted, k + 1, Len(sorted))

\* scores[:top_k] for top_k >= 0.
Truncate(scores, top_k) == SubSeq(scores, 1, IF top_k < Len(scores) THEN top_k ELSE Len(scores))

\* What vector_space_search returns when the candidate set is iterated in
\* the given order, the calculator's cache being the one after the query
\* vector was built.
VectorResult(cache, idx, lens, total, query_terms, top_k, order) ==
    IF query_terms = <<>> THEN <<>>
    ELSE LET filled == CacheAfterAll(cache, idx, total, query_terms)
             query_vector == calculate_query_vector(filled, idx, total, query_terms)
         IN  Truncate(SortByScore(Scores(filled, idx, lens, total, query_terms,
                                         query_vector, order)), top_k)

vector_space_search(query_terms, top_k) ==
    /\ idf_cache' = CacheAfterAll(idf_cache, index, total_docs, query_terms)
    /\ \E order \in Perms(CandidateDocs(index, query_terms)) :
          last' = [op |-> "vector_space_search", args |-> <<query_terms, top_k>>,
                   result |-> VectorResult(idf_cache, index, doc_lengths, total_docs,
                                           query_terms, top_k, order)]
    /\ UNCHANGED <<index, documents, doc_lengths, total_docs, file, loaded>>

\* What search returns or raises.
ValueError == "ValueError"

Returns(value) == [raised |-> None, value |-> value]

Raises(error) == [raised |-> error, value |-> None]

\* self.index.documents.get(doc_id, {})
Lookup(docs, doc_id) == IF doc_id \in DOMAIN docs THEN docs[doc_id] ELSE NoDocument

\* formatted_results of the vector branch: one record per (doc_id, score).
FormatVector(docs, results) ==
    [i \in DOMAIN results |->
        [doc_id |-> results[i][1], score |-> results[i][2],
         document |-> Lookup(docs, results[i][1])]]

\* formatted_results of the boolean branch: doc_ids[:top_k], each with score 1.0.
FormatBoolean(docs, doc_ids, top_k) ==
    LET cut == Truncate(doc_ids, top_k)
    IN  [i \in DOMAIN cut |->
            [doc_id |-> cut[i], score |-> <<1, 1>>, document |-> Lookup(docs, cut[i])]]

\* search(query, preprocessor, method, top_k); query_terms is what
\* preprocessor.preprocess(query) returned.
search(query_terms, method, top_k) ==
    LET Done(result) ==
            last' = [op |-> "search", args |-> <<query_terms, method, top_k>>,
                     result |-> result]
    IN  /\ UNCHANGED <<index, documents, doc_lengths, total_docs, file, loaded>>
        /\ IF query_terms = <<>>
           THEN idf_cache' = idf_cache /\ Done(Returns(<<>>))
           ELSE IF method = "vector"
           THEN /\ idf_cache' = CacheAfterAll(idf_cache, index, total_docs, query_terms)
                /\ \E order \in Perms(CandidateDocs(index, query_terms)) :
                      Done(Returns(FormatVector(documents,
                          VectorResult(idf_cache, index, doc_lengths, total_docs,
                                       query_terms, top_k, order))))
           ELSE IF method \in {"boolean_and", "boolean_or"}
           THEN /\ idf_cache' = idf_cache
                /\ \E doc_ids \in Perms(BooleanResult(index, query_terms,
                          IF method = "boolean_and" THEN "AND" ELSE "OR")) :
                      Done(Returns(FormatBoolean(documents, doc_ids, top_k)))
           ELSE idf_cache' = idf_cache /\ Done(Raises(ValueError))

\* ------------------------------------------------------------- persistence
\* A dict as pickle writes it, one (key, value) pair per key, and the dict
\* pickle.load builds from the pairs.
Items(d) == {<<k, d[k]>> : k \in DOMAIN d}

FromItems(items) ==
    [k \in {p[1] : p \in items} |-> (CHOOSE p \in items : p[1] = k)[2]]

\* Variant, not the code: the counter is not written.
IndexDataNoTotal(idx, docs, lens, total) ==
    [index |-> Items(idx), documents |-> Items(docs),
     doc_lengths |-> Items(lens), total_docs |-> 0]

\* index_data of save_index, pickled.
IndexData(idx, docs, lens, total) ==
    [index |-> Items(idx), documents |-> Items(docs),
     doc_lengths |-> Items(lens), total_docs |-> total]

\* The keys of index_data as save_index writes it.
DataKeys == {"index", "documents", "doc_lengths", "total_docs"}

\* keys: the keys the pickled dict has; data: their values.
NoFile == [exists |-> FALSE, data |-> IndexData(<<>>, <<>>, <<>>, 0), keys |-> {}]

\* InvertedIndex(): the fields after __init__.
FreshStore == [index |-> <<>>, documents |-> <<>>, doc_lengths |-> <<>>, total_docs |-> 0]

FileNotFoundError == "FileNotFoundError"

save_index ==
    /\ file' = [exists |-> TRUE,
                data |-> IndexData(index, documents, doc_lengths, total_docs),
                keys |-> DataKeys]
    /\ last' = [op |-> "save_index", args |-> <<>>, result |-> None]
    /\ UNCHANGED <<index, documents, doc_lengths, total_docs, idf_cache, loaded>>

KeyError == "KeyError"

\* Lines 109-112: the four fields are assigned one after the other, each from
\* its key of index_data; the first key that is missing raises KeyError and
\* the fields assigned before it keep their new values.
LoadedFrom(s, f) ==
    LET s1 == [s EXCEPT !.index = FromItems(f.data.index)]
        s2 == [s1 EXCEPT !.documents = FromItems(f.data.documents)]
        s3 == [s2 EXCEPT !.doc_lengths = FromItems(f.data.doc_lengths)]
        s4 == [s3 EXCEPT !.total_docs = f.data.total_docs]
    IN  IF "index" \notin f.keys THEN s
        ELSE IF "documents" \notin f.keys THEN s1
        ELSE IF "doc_lengths" \notin f.keys THEN s2
        ELSE IF "total_docs" \notin f.keys THEN s3
        ELSE s4

\* load_index called on the second store: open() raises when there is no
\* file, before any field is assigned.
load_index ==
    /\ IF file.exists
       THEN /\ loaded' = LoadedFrom(loaded, file)
            /\ last' = [op |-> "load_index", args |-> <<>>,
                        result |-> IF DataKeys \subseteq file.keys THEN None
                                   ELSE KeyError]
       ELSE /\ loaded' = loaded
            /\ last' = [op |-> "load_index", args |-> <<>>, result |-> FileNotFoundError]
    /\ UNCHANGED <<index, documents, doc_lengths, total_docs, idf_cache, file>>

\* ------------------------------------------------------------- IREvaluator
\* The metrics are Python floats; here they are exact rationals.
Zero == <<0, 1>>

One == <<1, 1>>

\* Variant, not the code: the relevant documents are counted, retrieved or not.
PrecisionOfRelevant(retrieved, relevant) ==
    IF retrieved = {} THEN Zero
    ELSE Rat(Cardinality(relevant), Cardinality(retrieved))

precision(retrieved, relevant) ==
    IF retrieved = {} THEN Zero
    ELSE Rat(Cardinality(retrieved \cap relevant), Cardinality(retrieved))

recall(retrieved, relevant) ==
    IF relevant = {} THEN Zero
    ELSE Rat(Cardinality(retrieved \cap relevant), Cardinality(relevant))

\* Variant, not the code: the harmonic mean without its factor 2.
F1NotDoubled(p, r) ==
    IF RatAdd(p, r) = Zero THEN Zero
    ELSE RatDiv(RatMul(p, r), RatAdd(p, r))

f1_score(p, r) ==
    IF RatAdd(p, r) = Zero THEN Zero
    ELSE RatDiv(RatMul(<<2, 1>>, RatMul(p, r)), RatAdd(p, r))

\* precisions of average_precision: the loop from position i on, with
\* relevant_count hits before it.
RECURSIVE PrecisionsFrom(_, _, _, _)
PrecisionsFrom(retrieved_ranked, relevant, i, relevant_count) ==
    IF i > Len(retrieved_ranked) THEN <<>>
    ELSE IF retrieved_ranked[i] \in relevant
    THEN <<Rat(relevant_count + 1, i)>>
             \o PrecisionsFrom(retrieved_ranked, relevant, i + 1, relevant_count + 1)
    ELSE PrecisionsFrom(retrieved_ranked, relevant, i + 1, relevant_count)

\* Variant, not the code: the sum is divided by the number of hits.
AveragePrecisionOverHits(retrieved_ranked, relevant) ==
    IF relevant = {} THEN Zero
    ELSE LET precisions == PrecisionsFrom(retrieved_ranked, relevant, 1, 0)
         IN  IF precisions = <<>> THEN Zero
             ELSE RatDiv(RatSum(precisions, DOMAIN precisions), <<Len(precisions), 1>>)

average_precision(retrieved_ranked, relevant) ==
    IF relevant = {} THEN Zero
    ELSE LET precisions == PrecisionsFrom(retrieved_ranked, relevant, 1, 0)
         IN  IF precisions = <<>> THEN Zero
             ELSE RatDiv(RatSum(precisions, DOMAIN precisions),
                         <<Cardinality(relevant), 1>>)

\* Variant, not the code: the queries without a hit are left out of the mean.
MeanOfPositive(results) ==
    LET aps == [i \in DOMAIN results |->
                   average_precision(results[i].retrieved, results[i].relevant)]
        hit == {i \in DOMAIN aps : aps[i] # Zero}
    IN  IF hit = {} THEN Zero
        ELSE RatDiv(RatSum(aps, hit), <<Cardinality(hit), 1>>)

mean_average_precision(results) ==
    IF results = <<>> THEN Zero
    ELSE LET aps == [i \in DOMAIN results |->
                        average_precision(results[i].retrieved, results[i].relevant)]
         IN  RatDiv(RatSum(aps, DOMAIN aps), <<Len(aps), 1>>)

\* retrieved_ranked[:k] for k >= 0, as a set.
TopSet(retrieved_ranked, k) == Range(Truncate(retrieved_ranked, k))

precision_at_k(retrieved_ranked, relevant, k) ==
    precision(TopSet(retrieved_ranked, k), relevant)

recall_at_k(retrieved_ranked, relevant, k) ==
    recall(TopSet(retrieved_ranked, k), relevant)

evaluate_query(retrieved_ranked, relevant, k) ==
    LET p == precision(Range(retrieved_ranked), relevant)
        r == recall(Range(retrieved_ranked), relevant)
    IN  [precision |-> p,
         recall |-> r,
         average_precision |-> average_precision(retrieved_ranked, relevant),
         precision_at_k |-> precision_at_k(retrieved_ranked, relevant, k),
         recall_at_k |-> recall_at_k(retrieved_ranked, relevant, k),
         f1_score |-> f1_score(p, r)]

ZeroDivisionError == "ZeroDivisionError"

\* evaluate_system: the averages divide by len(all_metrics), which raises
\* for an empty list of queries.
\* The keys of the two @k averages carry k in the code
\* (avg_precision_at_10); here they have one name each.
evaluate_system(test_queries, k) ==
    IF test_queries = <<>> THEN Raises(ZeroDivisionError)
    ELSE LET all_metrics ==
                 [i \in DOMAIN test_queries |->
                     evaluate_query(test_queries[i].retrieved,
                                    test_queries[i].relevant, k)]
             n == <<Len(all_metrics), 1>>
             Avg(key) ==
                 RatDiv(RatSum([i \in DOMAIN all_metrics |-> all_metrics[i][key]],
                               DOMAIN all_metrics), n)
         IN  Returns([avg_precision |-> Avg("precision"),
                      avg_recall |-> Avg("recall"),
                      avg_f1_score |-> Avg("f1_score"),
                      map |-> Avg("average_precision"),
                      avg_precision_at_k |-> Avg("precision_at_k"),
                      avg_recall_at_k |-> Avg("recall_at_k")])

\* A call of the evaluator: it has no state and touches none.
Evaluated(op, args, result) ==
    /\ last' = [op |-> op, args |-> args, result |-> result]
    /\ UNCHANGED <<index, documents, doc_lengths, total_docs, idf_cache, file, loaded>>

\* ------------------------------------------------------------ specification
Empty == [x \in {} |-> 0]

\* No build is running.
NoBuild ==
    [pc |-> "idle", documents |-> <<>>, output_file |-> FALSE, min_df |-> 0, i |-> 0,
     error |-> None]

\* Objects are told apart by a number; 0 is None.
NoCalculator == [id |-> 0, index |-> 0]

NoEngine == [id |-> 0, index |-> 0, tfidf |-> 0]

\* The application before initialize_system: its component fields are None.
\* before and kept are what a handler that builds found when it began: the
\* three components, and the fields of the application's store.
NoApp ==
    [pc |-> "off", handler |-> None, inverted_index |-> 0,
     tfidf_calculator |-> NoCalculator, search_engine |-> NoEngine,
     before |-> <<0, NoCalculator, NoEngine>>, kept |-> FreshStore]

NumReaders == 2

Readers == 1..NumReaders

\* A thread outside calculate_idf.
ReaderIdle == [pc |-> "idle", term |-> None, doc_freq |-> 0, idf |-> 0, read_at |-> <<0, 0>>]

Init ==
    /\ index = Empty
    /\ documents = Empty
    /\ doc_lengths = Empty
    /\ total_docs = 0
    /\ idf_cache = Empty
    /\ calls = <<>>
    /\ pruned = FALSE
    /\ last = [op |-> "init", args |-> <<>>, result |-> None]
    /\ file = NoFile
    /\ loaded = FreshStore
    /\ build = NoBuild
    /\ app = NoApp
    /\ readers = [r \in Readers |-> ReaderIdle]
    /\ epoch = [now |-> 0, of |-> Empty]

history == <<calls, pruned>>

\* What only the specifications of the build, of the application and of
\* concurrent readers change.
others == <<build, app, readers, epoch>>

\* Any caller of the store: documents are added (with or without a document
\* record, with fresh or repeated ids) and terms are pruned, in any order.
\* The history variables record what was called.
AddAny ==
    /\ total_docs < MaxDocs
    /\ \E d \in DocIds, toks \in TokenLists :
          /\ \E doc \in {NoDocument, Doc(d)} : add_document(d, toks, doc)
          /\ calls' = Append(calls, <<d, toks>>)
    /\ UNCHANGED <<pruned, others>>

PruneAny ==
    /\ \E m \in 0..MaxMinDf, r \in Ratios : prune_terms(m, r)
    /\ pruned' = TRUE
    /\ UNCHANGED <<calls, others>>

IdfAny == (\E t \in Terms : calculate_idf(t)) /\ UNCHANGED <<history, others>>

Next == AddAny \/ PruneAny

Spec == Init /\ [][Next]_vars

\* The store with a Weight Calculator on it.
NextIdf == AddAny \/ PruneAny \/ IdfAny

SpecIdf == Init /\ [][NextIdf]_vars

\* A retrieval session.  The store is built as build_index_from_documents
\* builds it (every document with its record, the ids numbered 1, 2, ... as
\* in the corpus file) and may still change between queries; the caller takes
\* the result of a query before the next call.
QueryOps == {"boolean_search", "vector_space_search"}

Idle == [op |-> "idle", args |-> <<>>, result |-> None]

AddWithDoc ==
    /\ total_docs < MaxCorpus
    /\ \E toks \in TokenLists : add_document(total_docs + 1, toks, Doc(total_docs + 1))
    /\ UNCHANGED <<history, others>>

PruneSession == (\E m \in 0..MaxMinDf, r \in Ratios : prune_terms(m, r)) /\ UNCHANGED <<history, others>>

BooleanAny ==
    /\ \E q \in Queries, o \in {"AND", "OR"} : boolean_search(q, o)
    /\ UNCHANGED <<history, others>>

VectorAny ==
    /\ \E q \in Queries, k \in TopKs : vector_space_search(q, k)
    /\ UNCHANGED <<history, others>>

Return ==
    /\ last.op \in QueryOps
    /\ last' = Idle
    /\ UNCHANGED <<index, documents, doc_lengths, total_docs, idf_cache, history, others, file, loaded>>

NextSearch ==
    \/ last.op \notin QueryOps /\ (AddWithDoc \/ PruneSession \/ BooleanAny \/ VectorAny)
    \/ Return

SpecSearch == Init /\ [][NextSearch]_vars

\* A store is built, saved and loaded into a second store.
SaveAny == save_index /\ UNCHANGED <<history, others>>

LoadAny == load_index /\ UNCHANGED <<history, others>>

NextPersist ==
    \/ ~file.exists /\ (AddAny \/ PruneAny)
    \/ SaveAny
    \/ LoadAny

SpecPersist == Init /\ [][NextPersist]_vars

\* The evaluator, called with every small input.
EvalDocs == 1..MaxEvalDocs

Rankings == SeqsUpTo(EvalDocs, MaxRank)

Cutoffs == 0..MaxRank

\* The values precision and recall take on sets of up to MaxEvalDocs documents.
Scores01 == UNION {{Rat(n, d) : n \in 0..d} : d \in 1..MaxEvalDocs}

BatchItems ==
    {[retrieved |-> r, relevant |-> rel] :
        r \in SeqsUpTo(EvalDocs, MaxBatch), rel \in SUBSET EvalDocs}

Batches == SeqsUpTo(BatchItems, MaxBatch)

EvalOps ==
    {"precision", "recall", "f1_score", "average_precision",
     "mean_average_precision", "evaluate_query", "evaluate_system"}

PrecisionAny ==
    /\ \E retrieved \in SUBSET EvalDocs, relevant \in SUBSET EvalDocs :
          Evaluated("precision", <<retrieved, relevant>>, precision(retrieved, relevant))
    /\ UNCHANGED <<history, others>>

RecallAny ==
    /\ \E retrieved \in SUBSET EvalDocs, relevant \in SUBSET EvalDocs :
          Evaluated("recall", <<retrieved, relevant>>, recall(retrieved, relevant))
    /\ UNCHANGED <<history, others>>

F1Any ==
    /\ \E p \in Scores01, r \in Scores01 : Evaluated("f1_score", <<p, r>>, f1_score(p, r))
    /\ UNCHANGED <<history, others>>

AveragePrecisionAny ==
    /\ \E ranked \in Rankings, relevant \in SUBSET EvalDocs :
          Evaluated("average_precision", <<ranked, relevant>>,
                    average_precision(ranked, relevant))
    /\ UNCHANGED <<history, others>>

MapAny ==
    /\ \E results \in Batches :
          Evaluated("mean_average_precision", <<results>>,
                    mean_average_precision(results))
    /\ UNCHANGED <<history, others>>

EvaluateQueryAny ==
    /\ \E ranked \in Rankings, relevant \in SUBSET EvalDocs, k \in Cutoffs :
          Evaluated("evaluate_query", <<ranked, relevant, k>>,
                    evaluate_query(ranked, relevant, k))
    /\ UNCHANGED <<history, others>>

EvaluateSystemAny ==
    /\ \E test_queries \in Batches, k \in Cutoffs :
          Evaluated("evaluate_system", <<test_queries, k>>,
                    evaluate_system(test_queries, k))
    /\ UNCHANGED <<history, others>>

ReturnEval ==
    /\ last.op \in EvalOps
    /\ last' = Idle
    /\ UNCHANGED <<index, documents, doc_lengths, total_docs, idf_cache, history, others,
                   file, loaded>>

\* The metrics of one query.
NextEval ==
    \/ /\ last.op \notin EvalOps
       /\ \/ PrecisionAny
          \/ RecallAny
          \/ F1Any
          \/ AveragePrecisionAny
          \/ EvaluateQueryAny
    \/ ReturnEval

SpecEval == Init /\ [][NextEval]_vars

\* The metrics of a batch of queries.
NextBatch ==
    \/ last.op \notin EvalOps /\ (MapAny \/ EvaluateSystemAny)
    \/ ReturnEval

SpecBatch == Init /\ [][NextBatch]_vars

\* Every operation of the calculator and of the engine, called on small
\* stores; the caller takes what a call returned before the next call.
Methods == {"vector", "boolean_and", "boolean_or", "fuzzy"}

CallOps ==
    QueryOps \cup {"search", "calculate_idf", "calculate_query_vector",
                   "calculate_document_vector"}

AddWithId ==
    /\ total_docs < MaxDocs
    /\ \E d \in DocIds, toks \in TokenLists : add_document(d, toks, Doc(d))
    /\ UNCHANGED <<history, others>>

QueryVectorAny ==
    /\ \E q \in Queries : CalculateQueryVector(q)
    /\ UNCHANGED <<history, others>>

DocumentVectorAny ==
    /\ \E d \in DocIds :
          \/ \E terms \in TokenLists : CalculateDocumentVector(d, terms)
          \/ CalculateDocumentVectorAll(d)
    /\ UNCHANGED <<history, others>>

SearchAny ==
    /\ \E q \in Queries, m \in Methods, k \in TopKs : search(q, m, k)
    /\ UNCHANGED <<history, others>>

ReturnApi ==
    /\ last.op \in CallOps
    /\ last' = Idle
    /\ UNCHANGED <<index, documents, doc_lengths, total_docs, idf_cache, history, others, file, loaded>>

NextApi ==
    \/ /\ last.op \notin CallOps
       /\ \/ AddWithId
          \/ PruneSession
          \/ IdfAny
          \/ QueryVectorAny
          \/ DocumentVectorAny
          \/ BooleanAny
          \/ VectorAny
          \/ SearchAny
    \/ ReturnApi

SpecApi == Init /\ [][NextApi]_vars

\* The three-document corpus of the ranking scenario, built as
\* build_index_from_documents builds a corpus (the documents in order, then
\* one prune with min_df = 1 and the default max_df_ratio = 1.0) and queried
\* afterwards.
ScenarioDocs ==
    << <<"global", "warming", "global">>,
       <<"global", "energy">>,
       <<"energy", "renewable">> >>

ScenarioTerms == UNION {Range(ScenarioDocs[i]) : i \in DOMAIN ScenarioDocs}

ScenarioQueries == SeqsUpTo(ScenarioTerms, MaxLen)

BuildScenario ==
    /\ ~pruned
    /\ total_docs < Len(ScenarioDocs)
    /\ add_document(total_docs + 1, ScenarioDocs[total_docs + 1], Doc(total_docs + 1))
    /\ UNCHANGED <<history, others>>

PruneScenario ==
    /\ ~pruned
    /\ total_docs = Len(ScenarioDocs)
    /\ prune_terms(1, <<1, 1>>)
    /\ pruned' = TRUE
    /\ UNCHANGED <<calls, others>>

BooleanScenario ==
    /\ \E q \in ScenarioQueries, o \in {"AND", "OR"} : boolean_search(q, o)
    /\ UNCHANGED <<history, others>>

VectorScenario ==
    /\ \E q \in ScenarioQueries, k \in TopKs : vector_space_search(q, k)
    /\ UNCHANGED <<history, others>>

NextScenario ==
    \/ BuildScenario
    \/ PruneScenario
    \/ pruned /\ last.op \notin QueryOps /\ (BooleanScenario \/ VectorScenario)
    \/ Return

SpecScenario == Init /\ [][NextScenario]_vars


\* ================================================================== claims
\* The ids passed to add_document so far, and the calls made with one id.
CalledIds == {calls[i][1] : i \in DOMAIN calls}

CallsOf(doc_id) == {i \in DOMAIN calls : calls[i][1] = doc_id}

DistinctIds == \A i, j \in DOMAIN calls : calls[i][1] = calls[j][1] => i = j

\* The document ids with a posting of term in idx.
Holders(idx, term) ==
    {d \in AllIds : \E i \in DOMAIN get_postings(idx, term) : get_postings(idx, term)[i][1] = d}

\* The document ids with a posting of some term.
Posted == UNION {Holders(index, t) : t \in Terms}

\* The number of postings of doc_id in a postings list.
PostingsOf(postings, doc_id) == Cardinality({i \in DOMAIN postings : postings[i][1] = doc_id})

\* C1 (as claimed): whatever add_document, prune_terms and calculate_idf
\* calls came before, calculate_idf(t) returns the value the store's current
\* state determines: 0 if document_frequency(t) is 0, else
\* log10(total_docs / document_frequency(t)).
C1_IdfOfCurrentStore ==
    last.op = "calculate_idf" =>
        last.result =
            (IF get_document_frequency(index, last.args[1]) = 0 THEN 0
             ELSE LOG10[total_docs] - LOG10[get_document_frequency(index, last.args[1])])

\* C2: prune_terms(min_df, max_df_ratio) removes a term if and only if its
\* document frequency is < min_df or its document frequency / total_docs is
\* > max_df_ratio; every surviving term keeps its postings list, and a removed
\* term has document frequency 0 and no postings afterwards.
C2_PruneRemovesExactly ==
    [][\A m \in 0..MaxMinDf, r \in Ratios :
          prune_terms(m, r) =>
              /\ \A t \in DOMAIN index :
                    (t \notin DOMAIN index') <=>
                        (\/ Len(index[t]) < m
                         \/ Len(index[t]) * r[2] > r[1] * total_docs)
              /\ \A t \in DOMAIN index' : t \in DOMAIN index /\ index'[t] = index[t]
              /\ \A t \in DOMAIN index \ DOMAIN index' :
                    /\ get_document_frequency(index', t) = 0
                    /\ get_postings(index', t) = <<>>]_vars

\* C2 witness: a prune removed some terms and kept others.
C2_Witness ==
    /\ last.op = "prune_terms"
    /\ last.result = 1
    /\ DOMAIN index # {}
    /\ total_docs = 2

\* C3: prune_terms returns the number of terms it removed (the number of
\* terms before minus the number after) and leaves the document-length map,
\* the document map and the total document count unchanged.
C3_PruneCountAndFrame ==
    [][last'.op = "prune_terms" =>
          /\ last'.result = Cardinality(DOMAIN index) - Cardinality(DOMAIN index')
          /\ doc_lengths' = doc_lengths
          /\ documents' = documents
          /\ total_docs' = total_docs]_vars

\* C3 witness: a prune removed every term of a store that holds documents.
C3_Witness ==
    /\ last.op = "prune_terms"
    /\ last.result = 2
    /\ DOMAIN index = {}
    /\ DOMAIN documents # {}
    /\ DOMAIN doc_lengths = DocIds

\* C4: after add_document calls with pairwise distinct ids and no prune, a
\* term's postings list holds at most one posting per document id, with the
\* number of occurrences of the term in that document's tokens as its
\* frequency; the term's document frequency is the number of added documents
\* whose tokens contain it; a term never added has no postings.
C4_PostingsOfDistinctDocs ==
    (DistinctIds /\ ~pruned) =>
        \A t \in Terms :
            LET postings == get_postings(index, t)
                containing == {i \in DOMAIN calls : t \in Range(calls[i][2])}
            IN  /\ \A i, j \in DOMAIN postings :
                      postings[i][1] = postings[j][1] => i = j
                /\ \A i \in DOMAIN postings :
                      \E c \in DOMAIN calls :
                          /\ calls[c][1] = postings[i][1]
                          /\ postings[i][2] = Count(calls[c][2], t)
                /\ get_document_frequency(index, t) = Cardinality(containing)
                /\ containing = {} =>
                      (postings = <<>> /\ get_document_frequency(index, t) = 0)

\* C4 witness: two documents with distinct ids, one of them with a term
\* twice, the other term in one document only.
C4_Witness ==
    /\ DistinctIds /\ ~pruned
    /\ Len(calls) = 2
    /\ \E t \in Terms :
          /\ get_document_frequency(index, t) = 2
          /\ \E i \in DOMAIN index[t] : index[t][i][2] = 2
    /\ \E t \in Terms : get_document_frequency(index, t) = 0

\* C5 (as claimed): the total document count is the number of distinct
\* document ids passed to add_document.
C5_TotalIsDistinctIds == total_docs = Cardinality(CalledIds)

\* C5 (amended): the total document count is the number of add_document
\* calls made, which is the number of distinct ids when no id was passed
\* twice; it never decreases and prune_terms never changes it.
C5_TotalIsCalls ==
    [][/\ total_docs' = Len(calls')
       /\ DistinctIds' => total_docs' = Cardinality(CalledIds')
       /\ total_docs' >= total_docs
       /\ last'.op = "prune_terms" => total_docs' = total_docs]_vars

\* C5 witness: an id was passed twice, and a prune followed.
C5_Witness ==
    /\ Len(calls) = 2
    /\ Cardinality(CalledIds) = 1
    /\ total_docs = 2
    /\ last.op = "prune_terms"

\* C6 (as claimed): every document id of a posting has a document-length
\* entry, and the entry is the length of the token list add_document was
\* given for that id (of each one it was given).
C6_LengthOfGivenTokens ==
    \A d \in Posted :
        /\ d \in DOMAIN doc_lengths
        /\ \A i \in CallsOf(d) : doc_lengths[d] = Len(calls[i][2])

\* C6 (amended): every document id of a posting has a document-length entry,
\* and the entry is the length of the token list of the most recent
\* add_document call for that id.
C6_LengthOfLatestTokens ==
    \A d \in Posted :
        /\ d \in DOMAIN doc_lengths
        /\ CallsOf(d) # {}
        /\ LET latest == CHOOSE i \in CallsOf(d) : \A j \in CallsOf(d) : j <= i
           IN  doc_lengths[d] = Len(calls[latest][2])

\* C6 witness: an id with postings was added twice, with token lists of
\* different lengths.
C6_Witness ==
    \E d \in Posted :
        \E i, j \in CallsOf(d) : i < j /\ Len(calls[i][2]) > Len(calls[j][2])

\* C7: add_document with an id that was added before is carried out like any
\* other: the total document count grows by one, every term of the tokens
\* gets one more posting for the id (so the id is counted once more in the
\* term's document frequency), and the document-length map keeps its one
\* entry for the id, overwritten.
C7_DuplicateIdIsAddedAgain ==
    [][(last'.op = "add_document" /\ calls'[Len(calls')][1] \in CalledIds) =>
          LET d == calls'[Len(calls')][1]
              toks == calls'[Len(calls')][2]
          IN  /\ total_docs' = total_docs + 1
              /\ \A t \in Range(toks) :
                    /\ get_postings(index', t) =
                          Append(get_postings(index, t), <<d, Count(toks, t)>>)
                    /\ get_document_frequency(index', t) =
                          get_document_frequency(index, t) + 1
                    /\ PostingsOf(get_postings(index', t), d) =
                          PostingsOf(get_postings(index, t), d) + 1
              /\ DOMAIN doc_lengths' = DOMAIN doc_lengths
              /\ doc_lengths'[d] = Len(toks)]_vars

\* C7 witness: one id added twice with a common term: the term has two
\* postings for it, the count is 2 and the length map has one entry.
C7_Witness ==
    /\ last.op = "add_document"
    /\ Len(calls) = 2
    /\ Cardinality(CalledIds) = 1
    /\ total_docs = 2
    /\ Cardinality(DOMAIN doc_lengths) = 1
    /\ \E t \in Terms, d \in DocIds : PostingsOf(get_postings(index, t), d) = 2


\* The documents with a posting of every, and of some, term of a query.
HoldAll(query_terms) ==
    {d \in AllIds : \A i \in DOMAIN query_terms : d \in Holders(index, query_terms[i])}

HoldSome(query_terms) ==
    {d \in AllIds : \E i \in DOMAIN query_terms : d \in Holders(index, query_terms[i])}

\* C8: the documents boolean retrieval returns with AND are among those it
\* returns with OR for the same terms on the same store.
C8_AndWithinOr ==
    (last.op = "boolean_search" /\ last.args[2] = "AND") =>
        Range(last.result) \subseteq BooleanResult(index, last.args[1], "OR")

\* C8 witness: an AND query of two different terms returned a document and
\* OR returns more.
C8_Witness ==
    /\ last.op = "boolean_search"
    /\ last.args[2] = "AND"
    /\ Cardinality(Range(last.args[1])) = 2
    /\ last.result # <<>>
    /\ BooleanResult(index, last.args[1], "OR") \ Range(last.result) # {}

\* C9: boolean AND over a non-empty term list returns exactly the documents
\* with a posting for every query term, boolean OR exactly those with a
\* posting for at least one; AND returns nothing when some query term has no
\* postings.
C9_BooleanIsExact ==
    (last.op = "boolean_search" /\ last.args[1] # <<>>) =>
        LET query_terms == last.args[1]
        IN  /\ Len(last.result) = Cardinality(Range(last.result))
            /\ last.args[2] = "AND" =>
                  /\ Range(last.result) = HoldAll(query_terms)
                  /\ (\E i \in DOMAIN query_terms :
                         get_postings(index, query_terms[i]) = <<>>)
                        => last.result = <<>>
            /\ last.args[2] = "OR" => Range(last.result) = HoldSome(query_terms)

\* C9 witness: an AND query of two different terms returned nothing because
\* one of them, which a document had next to the other, was pruned, while the
\* other term still has postings in two documents.
C9_Witness ==
    /\ last.op = "boolean_search"
    /\ last.args[2] = "AND"
    /\ Cardinality(Range(last.args[1])) = 2
    /\ last.result = <<>>
    /\ \E t \in Terms, d \in CorpusIds :
          /\ DOMAIN index = {t}
          /\ Cardinality(Holders(index, t)) = 2
          /\ d \in Holders(index, t)
          /\ doc_lengths[d] = 2
          /\ index[t][CHOOSE i \in DOMAIN index[t] : index[t][i][1] = d][2] = 1

\* C10: vector-space retrieval returns at most top_k pairs, no document id
\* twice, scores in non-increasing order, every score > 0 and every document
\* with a posting for at least one query term.
C10_VectorResultShape ==
    last.op = "vector_space_search" =>
        LET query_terms == last.args[1]
            top_k == last.args[2]
            result == last.result
        IN  /\ Len(result) <= top_k
            /\ \A i, j \in DOMAIN result : result[i][1] = result[j][1] => i = j
            /\ \A i, j \in DOMAIN result :
                  i < j => ~RatLess(result[i][2], result[j][2])
            /\ \A i \in DOMAIN result :
                  /\ RatLess(<<0, 1>>, result[i][2])
                  /\ result[i][1] \in HoldSome(query_terms)

\* C10 witness: two documents were returned, the one with the higher id
\* first because its score is strictly higher.
C10_Witness ==
    /\ last.op = "vector_space_search"
    /\ Len(last.result) = 2
    /\ RatLess(last.result[2][2], last.result[1][2])
    /\ last.result[1][1] > last.result[2][1]


\* C11 (as claimed): on the scenario corpus the query [global] retrieves
\* exactly documents 1 and 2 under boolean OR and under vector search, and
\* vector search ranks document 1 strictly above document 2.
C11_ScenarioRanking ==
    /\ (last.op = "boolean_search" /\ last.args = << <<"global">>, "OR" >>) =>
          Range(last.result) = {1, 2}
    /\ (last.op = "vector_space_search" /\ last.args[1] = <<"global">>
            /\ last.args[2] >= 2) =>
          /\ Len(last.result) = 2
          /\ last.result[1][1] = 1
          /\ last.result[2][1] = 2
          /\ RatLess(last.result[2][2], last.result[1][2])

\* C11, the part that holds: the two retrieved sets are {1, 2}.
C11_ScenarioRetrieved ==
    /\ (last.op = "boolean_search" /\ last.args = << <<"global">>, "OR" >>) =>
          Range(last.result) = {1, 2}
    /\ (last.op = "vector_space_search" /\ last.args[1] = <<"global">>
            /\ last.args[2] >= 2) =>
          {last.result[i][1] : i \in DOMAIN last.result} = {1, 2}

\* C11: the scores of documents 1 and 2 for [global] are equal.
C11_ScenarioTie ==
    (last.op = "vector_space_search" /\ last.args[1] = <<"global">>
        /\ last.args[2] >= 2) =>
        /\ Len(last.result) = 2
        /\ last.result[1][2] = last.result[2][2]

\* C11 witness: on the scenario corpus the query [global] returned documents
\* 1 and 2, in this order, with equal scores.
C11_Witness ==
    /\ pruned
    /\ last.op = "vector_space_search"
    /\ last.args[1] = <<"global">>
    /\ Len(last.result) = 2
    /\ last.result[1][1] = 1
    /\ last.result[2][1] = 2
    /\ last.result[1][2] = last.result[2][2]

\* The elements of a set of numbers in ascending order.
RECURSIVE Ascending(_)
Ascending(S) ==
    IF S = {} THEN <<>>
    ELSE LET least == CHOOSE x \in S : \A y \in S : x <= y
         IN  <<least>> \o Ascending(S \ {least})

\* C12 (as claimed): vector-space retrieval is deterministic: the ranked list
\* is the one a fixed rule gives for the store, the query terms and top_k
\* (documents of equal similarity by ascending id), whatever order the
\* candidate set is iterated in.
C12_VectorDeterministic ==
    last.op = "vector_space_search" =>
        last.result = VectorResult(idf_cache, index, doc_lengths, total_docs,
                                   last.args[1], last.args[2],
                                   Ascending(CandidateDocs(index, last.args[1])))

\* C12 witness: two documents of equal similarity were returned with the
\* higher id first.
C12_Witness ==
    /\ last.op = "vector_space_search"
    /\ Len(last.result) >= 2
    /\ last.result[1][2] = last.result[2][2]
    /\ last.result[1][1] > last.result[2][1]

\* The method strings search knows.
KnownMethods == {"vector", "boolean_and", "boolean_or"}

\* C13 (as claimed): search with a method string other than 'vector',
\* 'boolean_and' or 'boolean_or' raises an error whatever token list the
\* query normalizes to, and never returns a result list.
C13_UnknownMethodRaises ==
    (last.op = "search" /\ last.args[2] \notin KnownMethods) =>
        last.result.raised = ValueError

\* C13 witness: search with an unknown method and a query without tokens
\* returned the empty list.
C13_Witness ==
    /\ last.op = "search"
    /\ last.args[2] \notin KnownMethods
    /\ last.args[1] = <<>>
    /\ last.result = Returns(<<>>)
    /\ total_docs > 0

\* C14: a query whose token list is empty gives the empty result list and no
\* error in the three retrieval modes of search, and boolean_search and
\* vector_space_search called with an empty term list return [].
C14_EmptyQueryIsEmptyResult ==
    /\ (last.op = "search" /\ last.args[1] = <<>> /\ last.args[2] \in KnownMethods) =>
          last.result = Returns(<<>>)
    /\ (last.op \in QueryOps /\ last.args[1] = <<>>) => last.result = <<>>

\* C14 witness: search with an empty token list returned [] on a store in
\* which a non-empty query finds documents.
C14_Witness ==
    /\ last.op = "search"
    /\ last.args = <<<<>>, "boolean_and", MaxDocs>>
    /\ last.result = Returns(<<>>)
    /\ DOMAIN index # {}

\* C15 (as claimed): a weight vector returned by calculate_document_vector or
\* calculate_query_vector has only terms of strictly positive weight.
C15_NoZeroWeights ==
    last.op \in {"calculate_query_vector", "calculate_document_vector"} =>
        \A t \in DOMAIN last.result : RatLess(<<0, 1>>, last.result[t])

\* C15, the part that holds: the vectors of calculate_document_vector.
C15_NoZeroDocumentWeights ==
    last.op = "calculate_document_vector" =>
        \A t \in DOMAIN last.result : RatLess(<<0, 1>>, last.result[t])

\* C15 witness: calculate_query_vector returned a vector with a term of
\* weight 0, the term having no postings.
C15_Witness ==
    /\ last.op = "calculate_query_vector"
    /\ \E t \in DOMAIN last.result :
          /\ last.result[t] = <<0, 1>>
          /\ get_document_frequency(index, t) = 0

\* C16 (as claimed): document_frequency(t) <= total_docs for every term, every
\* IDF value and every weight the calculator returns is >= 0, and the IDF
\* returned is 0 when the term's document frequency is 0 or total_docs.
C16_IdfNonNegative ==
    /\ \A t \in Terms : get_document_frequency(index, t) <= total_docs
    /\ last.op = "calculate_idf" =>
          /\ last.result >= 0
          /\ get_document_frequency(index, last.args[1]) \in {0, total_docs} =>
                last.result = 0
    /\ last.op \in {"calculate_query_vector", "calculate_document_vector"} =>
          \A t \in DOMAIN last.result : ~RatLess(last.result[t], <<0, 1>>)

\* C16, the part that holds: the bound on document frequencies and the sign
\* of what is returned.
C16_NonNegative ==
    /\ \A t \in Terms : get_document_frequency(index, t) <= total_docs
    /\ last.op = "calculate_idf" => last.result >= 0
    /\ last.op \in {"calculate_query_vector", "calculate_document_vector"} =>
          \A t \in DOMAIN last.result : ~RatLess(last.result[t], <<0, 1>>)

\* C16 witness: calculate_idf returned a value > 0 for a term without
\* postings.
C16_Witness ==
    /\ last.op = "calculate_idf"
    /\ get_document_frequency(index, last.args[1]) = 0
    /\ last.result > 0

\* C17: save_index followed by load_index into a fresh store gives the second
\* store the same postings map, document map, document-length map and total
\* document count, and every boolean and vector query (a new calculator on
\* each store) has the same answers on both.
C17_SaveLoadRoundTrip ==
    [][(last.op = "save_index" /\ last'.op = "load_index") =>
          /\ loaded'.index = index
          /\ {t \in Terms : get_postings(loaded'.index, t) # get_postings(index, t)} = {}
          /\ loaded'.documents = documents
          /\ loaded'.doc_lengths = doc_lengths
          /\ loaded'.total_docs = total_docs
          /\ \A q \in Queries :
                /\ \A o \in {"AND", "OR"} :
                      BooleanResult(loaded'.index, q, o) = BooleanResult(index, q, o)
                /\ CandidateDocs(loaded'.index, q) = CandidateDocs(index, q)
                /\ \A k \in TopKs, order \in Perms(CandidateDocs(index, q)) :
                      VectorResult(Empty, loaded'.index, loaded'.doc_lengths,
                                   loaded'.total_docs, q, k, order)
                          = VectorResult(Empty, index, doc_lengths, total_docs,
                                         q, k, order)]_vars

\* C17 witness: a store with postings, an id added twice and a prune behind
\* it was saved and loaded.
C17_Witness ==
    /\ last.op = "load_index"
    /\ last.result = None
    /\ loaded.total_docs = 2
    /\ pruned
    /\ DOMAIN loaded.index # {}
    /\ Cardinality(DOMAIN loaded.doc_lengths) = 1
    /\ file.exists

\* 0 <= x <= 1.
InUnit(x) == ~RatLess(x, Zero) /\ ~RatLess(One, x)

\* C18: for all retrieved and relevant sets, precision, recall and the f1
\* computed from them lie in [0, 1]; f1 is 0 whenever precision + recall is
\* 0; precision is 0 for an empty retrieved set and recall is 0 for an empty
\* relevant set.
C18_MetricsInUnitInterval ==
    /\ last.op = "precision" =>
          /\ InUnit(last.result)
          /\ last.args[1] = {} => last.result = Zero
    /\ last.op = "recall" =>
          /\ InUnit(last.result)
          /\ last.args[2] = {} => last.result = Zero
    /\ last.op = "f1_score" =>
          /\ InUnit(last.result)
          /\ RatAdd(last.args[1], last.args[2]) = Zero => last.result = Zero
    /\ last.op = "evaluate_query" =>
          /\ InUnit(last.result.precision)
          /\ InUnit(last.result.recall)
          /\ InUnit(last.result.f1_score)
          /\ last.args[1] = <<>> => last.result.precision = Zero
          /\ last.args[2] = {} => last.result.recall = Zero
          /\ RatAdd(last.result.precision, last.result.recall) = Zero =>
                last.result.f1_score = Zero

\* C18 witness: a query evaluated with more relevant documents than
\* retrieved ones, precision 1, recall below 1 and f1 between the two.
C18_Witness ==
    /\ last.op = "evaluate_query"
    /\ Cardinality(last.args[2]) > Cardinality(Range(last.args[1]))
    /\ last.result.precision = One
    /\ RatLess(last.result.recall, last.result.f1_score)
    /\ RatLess(last.result.f1_score, last.result.precision)

\* The number of relevant documents among positions 1..i of a ranking.
HitsUpTo(ranked, relevant, i) == Cardinality({j \in 1..i : ranked[j] \in relevant})

\* C19: average_precision(ranked, relevant) is the sum, over the positions i
\* whose document is relevant, of (relevant documents among positions 1..i) / i,
\* divided by the size of the relevant set; it is 0 when the relevant set is
\* empty or no ranked document is relevant.
C19_AveragePrecision ==
    last.op = "average_precision" =>
        LET ranked == last.args[1]
            relevant == last.args[2]
            hits == {i \in DOMAIN ranked : ranked[i] \in relevant}
        IN  /\ (relevant = {} \/ hits = {}) => last.result = Zero
            /\ relevant # {} =>
                  last.result =
                      RatDiv(RatSum([i \in DOMAIN ranked |->
                                        Rat(HitsUpTo(ranked, relevant, i), i)], hits),
                             <<Cardinality(relevant), 1>>)

\* C19 witness: two relevant documents, one of them ranked second, the other
\* not ranked: the average precision is (1/2) / 2.
C19_Witness ==
    /\ last.op = "average_precision"
    /\ Cardinality(last.args[2]) = 2
    /\ Len(last.args[1]) = 2
    /\ last.args[1][1] \notin last.args[2]
    /\ last.args[1][2] \in last.args[2]
    /\ last.result = <<1, 4>>

\* The arithmetic mean of average_precision over the queries of a batch.
MeanAP(batch) ==
    RatDiv(RatSum([i \in DOMAIN batch |->
                      average_precision(batch[i].retrieved, batch[i].relevant)],
                  DOMAIN batch),
           <<Len(batch), 1>>)

\* C20: for a non-empty batch, mean_average_precision(batch) and the 'map'
\* entry of evaluate_system(batch, k) are the arithmetic mean of
\* average_precision over the batch's queries, for every k;
\* mean_average_precision of an empty batch is 0.
C20_MapIsMeanOfAP ==
    /\ last.op = "mean_average_precision" =>
          last.result = IF last.args[1] = <<>> THEN Zero ELSE MeanAP(last.args[1])
    /\ (last.op = "evaluate_system" /\ last.args[1] # <<>>) =>
          /\ last.result.raised = None
          /\ last.result.value.map = MeanAP(last.args[1])
          /\ last.result.value.map = mean_average_precision(last.args[1])

\* C20 witness: a batch of two queries, one of average precision 1 and one
\* of average precision 0, evaluated with the largest k: map is 1/2.
C20_Witness ==
    /\ last.op = "evaluate_system"
    /\ Len(last.args[1]) = 2
    /\ last.args[2] = MaxRank
    /\ average_precision(last.args[1][1].retrieved, last.args[1][1].relevant) = One
    /\ average_precision(last.args[1][2].retrieved, last.args[1][2].relevant) = Zero
    /\ last.result.value.map = <<1, 2>>

\* ------------------------------------------- the evaluator's dummy-data check
\* main of evaluator.py evaluates one ranking of ten documents against five
\* relevant ones; the specification also evaluates it against every subset of
\* them and at every cutoff.
DummyRetrieved == <<1, 3, 5, 7, 9, 2, 4, 6, 8, 10>>

DummyRelevant == {1, 2, 3, 4, 5}

DummyCutoffs == 0..Len(DummyRetrieved)

EvaluateDummy ==
    /\ \E relevant \in SUBSET DummyRelevant, k \in DummyCutoffs :
          Evaluated("evaluate_query", <<DummyRetrieved, relevant, k>>,
                    evaluate_query(DummyRetrieved, relevant, k))
    /\ UNCHANGED <<history, others>>

NextDummy ==
    \/ /\ last.op \notin EvalOps
       /\ EvaluateDummy
    \/ ReturnEval

SpecDummy == Init /\ [][NextDummy]_vars

\* C21: evaluate_query on retrieved = [1,3,5,7,9,2,4,6,8,10], relevant =
\* {1,2,3,4,5} and k = 10 gives precision 1/2, recall 1 and f1 2/3, and
\* precision_at_k and recall_at_k equal precision and recall, the cutoff
\* covering the whole list.
C21_DummyMetrics ==
    (/\ last.op = "evaluate_query"
     /\ last.args = <<DummyRetrieved, DummyRelevant, Len(DummyRetrieved)>>)
    => /\ last.result.precision = <<1, 2>>
       /\ last.result.recall = One
       /\ last.result.f1_score = <<2, 3>>
       /\ last.result.precision_at_k = last.result.precision
       /\ last.result.recall_at_k = last.result.recall

C21_Witness ==
    /\ last.op = "evaluate_query"
    /\ last.args = <<DummyRetrieved, DummyRelevant, Len(DummyRetrieved)>>
    /\ last.result.f1_score = <<2, 3>>

\* ------------------------------------------------------------------ ndcg_at_k
\* Sums and quotients of rationals whose denominators share large factors:
\* the common factors are cancelled before multiplying.
RatPlus(x, y) ==
    LET g == Gcd(x[2], y[2])
    IN  Rat(x[1] * (y[2] \div g) + y[1] * (x[2] \div g), (x[2] \div g) * y[2])

RatQuot(x, y) ==
    LET gn == Gcd(x[1], y[1])
        gd == Gcd(x[2], y[2])
    IN  Rat((x[1] \div gn) * (y[2] \div gd), (x[2] \div gd) * (y[1] \div gn))

\* The literal 0.693147 of the discount.
LN2 == <<693147, 1000000>>

\* The divisor of the relevance at position i: i if i == 1 else i * 0.693147.
Discount(i) == IF i = 1 THEN <<i, 1>> ELSE Rat(i * LN2[1], LN2[2])

\* The divisors of the positions 1..n.
Discounts(n) == [i \in 1..n |-> Discount(i)]

\* The loop "dcg += rel / discount" over the gains from position i on, the
\* divisor of position j being divisors[j].
RECURSIVE DcgFrom(_, _, _)
DcgFrom(divisors, gains, i) ==
    IF i > Len(gains) THEN Zero
    ELSE RatPlus(RatQuot(<<gains[i], 1>>, divisors[i]), DcgFrom(divisors, gains, i + 1))

\* relevance_scores.get(doc_id, 0) along retrieved_ranked[:k].
Gains(retrieved_ranked, relevance_scores, k) ==
    [i \in 1..Len(Truncate(retrieved_ranked, k)) |->
        IF retrieved_ranked[i] \in DOMAIN relevance_scores
        THEN relevance_scores[retrieved_ranked[i]] ELSE 0]

\* The relevances of sorted(relevance_scores.items(), key = score,
\* reverse = True)[:k].
IdealGains(relevance_scores, k) ==
    LET ideal_ranked ==
            CHOOSE s \in Perms(DOMAIN relevance_scores) :
                \A i, j \in DOMAIN s :
                    i < j => relevance_scores[s[i]] >= relevance_scores[s[j]]
    IN  [i \in 1..Len(Truncate(ideal_ranked, k)) |-> relevance_scores[ideal_ranked[i]]]

\* ndcg_at_k with the divisor divisors[i] at position i.
NdcgWith(divisors, retrieved_ranked, relevance_scores, k) ==
    LET dcg == DcgFrom(divisors, Gains(retrieved_ranked, relevance_scores, k), 1)
        idcg == DcgFrom(divisors, IdealGains(relevance_scores, k), 1)
    IN  IF idcg = Zero THEN Zero ELSE RatQuot(dcg, idcg)

ndcg_at_k(retrieved_ranked, relevance_scores, k) ==
    NdcgWith(Discounts(k), retrieved_ranked, relevance_scores, k)

MaxRel == 2

\* Graded relevance judgements of some of the documents.
RelevanceScores == UNION {[D -> 0..MaxRel] : D \in SUBSET EvalDocs}

NdcgAny ==
    /\ \E ranked \in Rankings, relevance_scores \in RelevanceScores, k \in Cutoffs :
          Evaluated("ndcg_at_k", <<ranked, relevance_scores, k>>,
                    ndcg_at_k(ranked, relevance_scores, k))
    /\ UNCHANGED <<history, others>>

ReturnNdcg ==
    /\ last.op = "ndcg_at_k"
    /\ last' = Idle
    /\ UNCHANGED <<index, documents, doc_lengths, total_docs, idf_cache, history, others,
                   file, loaded>>

NextNdcg ==
    \/ /\ last.op # "ndcg_at_k"
       /\ NdcgAny
    \/ ReturnNdcg

SpecNdcg == Init /\ [][NextNdcg]_vars

\* log2(n) in millionths, n = 1, 2, ...
LOG2 == <<0, 1000000, 1584963, 2000000, 2321928, 2584963, 2807355, 3000000>>

Log2Discounts == [i \in 1..(Len(LOG2) - 1) |-> Rat(LOG2[i + 1], 1000000)]

\* C22: ndcg_at_k divides the relevance at ranked position i by 1 for i = 1
\* and by log2(i + 1) for every i > 1, in DCG and in IDCG alike: its result
\* is the NDCG of these discounts.
C22_DiscountIsLog2 ==
    last.op = "ndcg_at_k"
    => /\ \A i \in 1..Len(Truncate(last.args[1], last.args[3])) :
             Discount(i) = Log2Discounts[i]
       /\ last.result = NdcgWith(Log2Discounts, last.args[1], last.args[2], last.args[3])

\* The ranking [2, 1] of documents judged {1: 2, 2: 1}, cut at 2: the code
\* gives a larger NDCG than the log2 discount does.
C22_Witness ==
    /\ last.op = "ndcg_at_k"
    /\ last.args = <<<<2, 1>>, (1 :> 2) @@ (2 :> 1), 2>>
    /\ RatLess(NdcgWith(Log2Discounts, last.args[1], last.args[2], last.args[3]),
               last.result)

\* ------------------------------------------------ the read operations as calls
\* Variant, not the code: self.index[term], which makes a defaultdict insert an
\* empty posting list for an absent term.
IndexAfterGetItem(idx, term) == IF term \in DOMAIN idx THEN idx ELSE Put(idx, term, <<>>)

\* self.index.get(term, []) on the defaultdict of postings: get inserts no
\* entry for an absent term.
IndexAfterGet(idx, term) == idx

GetPostings(term) ==
    /\ index' = IndexAfterGet(index, term)
    /\ last' = [op |-> "get_postings", args |-> <<term>>,
                result |-> get_postings(index, term)]
    /\ UNCHANGED <<documents, doc_lengths, total_docs, idf_cache, file, loaded>>

GetDocumentFrequency(term) ==
    /\ index' = IndexAfterGet(index, term)
    /\ last' = [op |-> "get_document_frequency", args |-> <<term>>,
                result |-> get_document_frequency(index, term)]
    /\ UNCHANGED <<documents, doc_lengths, total_docs, idf_cache, file, loaded>>

get_stats(idx, lens, total) ==
    [total_documents |-> total,
     total_terms |-> Cardinality(DOMAIN idx),
     avg_doc_length |-> RatDiv(RatSum([d \in DOMAIN lens |-> <<lens[d], 1>>], DOMAIN lens),
                               <<Max(total, 1), 1>>)]

GetStats ==
    /\ last' = [op |-> "get_stats", args |-> <<>>,
                result |-> get_stats(index, doc_lengths, total_docs)]
    /\ UNCHANGED <<index, documents, doc_lengths, total_docs, idf_cache, file, loaded>>

\* Variant, not the code: the reference document is compared with itself too.
OthersAndSelf(docs, doc_id) == DOMAIN docs

\* The documents get_related_documents compares the reference with: the keys
\* of the document map but doc_id itself.
Others(docs, doc_id) == DOMAIN docs \ {doc_id}

\* What get_related_documents returns when the other documents are visited in
\* the given order (the insertion order of the document map, which the model
\* of the store does not record).
RelatedResult(cache, idx, docs, lens, total, doc_id, top_k, order) ==
    LET terms == CHOOSE s \in Perms(DocTerms(idx, doc_id)) : TRUE
        filled == CacheAfterAll(cache, idx, total, terms)
        doc_vector == calculate_document_vector(filled, idx, lens, total, doc_id, terms)
        keys == CHOOSE s \in Perms(DOMAIN doc_vector) : TRUE
    IN  IF DOMAIN doc_vector = {} THEN <<>>
        ELSE FormatVector(docs,
                 Truncate(SortByScore(Scores(filled, idx, lens, total, keys,
                                             doc_vector, order)), top_k))

get_related_documents(doc_id, top_k) ==
    /\ idf_cache' = CacheAfterAll(idf_cache, index, total_docs,
                                  CHOOSE s \in Perms(DocTerms(index, doc_id)) : TRUE)
    /\ \E order \in Perms(Others(documents, doc_id)) :
          last' = [op |-> "get_related_documents", args |-> <<doc_id, top_k>>,
                   result |-> RelatedResult(idf_cache, index, documents, doc_lengths,
                                            total_docs, doc_id, top_k, order)]
    /\ UNCHANGED <<index, documents, doc_lengths, total_docs, file, loaded>>

ReadOps ==
    CallOps \cup {"get_postings", "get_document_frequency", "get_stats",
                  "get_related_documents"}

PostingsAny == (\E t \in Terms : GetPostings(t)) /\ UNCHANGED <<history, others>>

DocumentFrequencyAny == (\E t \in Terms : GetDocumentFrequency(t)) /\ UNCHANGED <<history, others>>

StatsAny == GetStats /\ UNCHANGED <<history, others>>

RelatedAny ==
    /\ \E d \in AllIds, k \in TopKs : get_related_documents(d, k)
    /\ UNCHANGED <<history, others>>

ReturnRead ==
    /\ last.op \in ReadOps
    /\ last' = Idle
    /\ UNCHANGED <<index, documents, doc_lengths, total_docs, idf_cache, history, others, file, loaded>>

\* Every read operation of the store, the calculator and the engine, between
\* the additions and prunes of a store of up to MaxDocs documents.
NextRead ==
    \/ /\ last.op \notin ReadOps
       /\ \/ AddWithId
          \/ PruneSession
          \/ PostingsAny
          \/ DocumentFrequencyAny
          \/ StatsAny
          \/ IdfAny
          \/ QueryVectorAny
          \/ DocumentVectorAny
          \/ BooleanAny
          \/ VectorAny
          \/ SearchAny
          \/ RelatedAny
    \/ ReturnRead

SpecRead == Init /\ [][NextRead]_vars

\* C23: the query operations leave the store as it is: get_postings,
\* get_document_frequency, get_stats, calculate_idf, the document and query
\* vectors, boolean_search, vector_space_search, search and
\* get_related_documents change neither the postings map (nor its key set:
\* looking up an absent term inserts no entry, so the number of terms stays)
\* nor the document map, the document lengths or the document count.
C23_ReadsLeaveStore ==
    [][last'.op \in ReadOps
       => /\ index' = index
          /\ DOMAIN index' = DOMAIN index
          /\ documents' = documents
          /\ doc_lengths' = doc_lengths
          /\ total_docs' = total_docs]_vars

\* An absent term was looked up in a store that holds another one.
C23_Witness ==
    /\ last.op = "get_postings"
    /\ last.args[1] \notin DOMAIN index
    /\ last.result = <<>>
    /\ DOMAIN index # {}

\* ----------------------------------------- calculate_idf on concurrent threads
\* calculate_idf holds no lock: a thread can be suspended between its
\* statements.  Each reader runs calculate_idf statement by statement;
\* add_document and prune_terms are taken as one step each, which leaves out
\* interleavings, none of them needed below.
\* Lines 210-211: the cache hit returns at once.
IdfEnter(r, term) ==
    /\ readers[r].pc = "idle"
    /\ IF term \in DOMAIN idf_cache
       THEN /\ last' = [op |-> "calculate_idf", args |-> <<term>>,
                        result |-> idf_cache[term]]
            /\ readers' = readers
       ELSE /\ last' = last
            /\ readers' = [readers EXCEPT ![r] = [@ EXCEPT !.pc = "doc_freq", !.term = term]]
    /\ UNCHANGED <<index, documents, doc_lengths, total_docs, idf_cache, file, loaded,
                   epoch>>

\* Line 214: doc_freq = self.index.get_document_frequency(term).
IdfReadDocFreq(r) ==
    /\ readers[r].pc = "doc_freq"
    /\ readers' = [readers EXCEPT ![r] =
           [@ EXCEPT !.pc = "idf",
                     !.doc_freq = get_document_frequency(index, readers[r].term),
                     !.read_at = <<epoch.now, epoch.now>>]]
    /\ UNCHANGED <<index, documents, doc_lengths, total_docs, idf_cache, last, file,
                   loaded, epoch>>

\* Lines 216-220: idf = 0, or log10 of total_docs, read now, over doc_freq.
IdfCompute(r) ==
    /\ readers[r].pc = "idf"
    /\ readers' = [readers EXCEPT ![r] =
           IF readers[r].doc_freq = 0
           THEN [@ EXCEPT !.pc = "store", !.idf = 0]
           ELSE [@ EXCEPT !.pc = "store",
                          !.idf = LOG10[total_docs] - LOG10[readers[r].doc_freq],
                          !.read_at = <<readers[r].read_at[1], epoch.now>>]]
    /\ UNCHANGED <<index, documents, doc_lengths, total_docs, idf_cache, last, file,
                   loaded, epoch>>

\* Lines 223-225: self.idf_cache[term] = idf; return idf.
IdfStore(r) ==
    /\ readers[r].pc = "store"
    /\ idf_cache' = Put(idf_cache, readers[r].term, readers[r].idf)
    /\ epoch' = [epoch EXCEPT !.of = Put(@, readers[r].term, readers[r].read_at)]
    /\ last' = [op |-> "calculate_idf", args |-> <<readers[r].term>>,
                result |-> readers[r].idf]
    /\ readers' = [readers EXCEPT ![r] = ReaderIdle]
    /\ UNCHANGED <<index, documents, doc_lengths, total_docs, file, loaded>>

\* A change of the index starts a new epoch.
Changed == [epoch EXCEPT !.now = IF index' # index \/ total_docs' # total_docs
                                  THEN @ + 1 ELSE @]

AddShared ==
    /\ total_docs < MaxDocs
    /\ \E toks \in TokenLists : add_document(total_docs + 1, toks, Doc(total_docs + 1))
    /\ epoch' = Changed
    /\ UNCHANGED <<history, build, app, readers>>

PruneShared ==
    /\ \E m \in 0..MaxMinDf, r \in Ratios : prune_terms(m, r)
    /\ epoch' = Changed
    /\ UNCHANGED <<history, build, app, readers>>

EnterAny == (\E r \in Readers, t \in Terms : IdfEnter(r, t)) /\ UNCHANGED <<history, build, app>>

ReadDocFreqAny == (\E r \in Readers : IdfReadDocFreq(r)) /\ UNCHANGED <<history, build, app>>

ComputeAny == (\E r \in Readers : IdfCompute(r)) /\ UNCHANGED <<history, build, app>>

StoreAny == (\E r \in Readers : IdfStore(r)) /\ UNCHANGED <<history, build, app>>

\* NumReaders threads call calculate_idf on one calculator while the store is
\* added to and pruned.
NextShared ==
    \/ AddShared
    \/ PruneShared
    \/ EnterAny
    \/ ReadDocFreqAny
    \/ ComputeAny
    \/ StoreAny

SpecShared == Init /\ [][NextShared]_vars

\* C24: readers do not fill the IDF cache lazily without synchronization: in
\* no interleaving of concurrent calculate_idf calls with add_document and
\* prune does the cache hold IDF values computed from different states of the
\* index; all its entries read df and total_docs in one and the same epoch.
C24_CacheOfOneIndexState ==
    \E e \in 0..epoch.now : \A t \in DOMAIN idf_cache : epoch.of[t] = <<e, e>>

\* A cached value whose df was read before a change of the index and whose
\* total_docs after it, next to a value of another term.
C24_Witness ==
    /\ DOMAIN idf_cache = Terms
    /\ \E t \in Terms : epoch.of[t][1] < epoch.of[t][2]

\* ------------------------------------------------ build_index_from_documents
MaxTitle == 1

MaxBuildDocs == 2

\* What preprocessor.preprocess returns for a title.
TitleLists == SeqsUpTo(Terms, MaxTitle)

\* The documents the loader returns: the i-th has id i, its title and content
\* are given by the tokens preprocess makes of them.
Corpora ==
    UNION {{c \in [1..n -> [id : 1..n, title : TitleLists, content : TokenLists]] :
               \A i \in 1..n : c[i].id = i} : n \in 0..MaxBuildDocs}

\* Variant, not the code: the title is counted once.
TitleOnce(doc) == doc.title \o doc.content

\* all_tokens = title_tokens * 2 + content_tokens
BuildTokens(doc) == doc.title \o doc.title \o doc.content

\* Lines 340-362: the documents are loaded and a new InvertedIndex is made.
BuildStart(docs, output_file, min_df) ==
    /\ build.pc = "idle"
    /\ build' = [pc |-> "loop", documents |-> docs, output_file |-> output_file,
                 min_df |-> min_df, i |-> 0, error |-> None]
    /\ index' = Empty
    /\ documents' = Empty
    /\ doc_lengths' = Empty
    /\ total_docs' = 0
    /\ calls' = <<>>
    /\ pruned' = FALSE
    /\ last' = [op |-> "build_index_from_documents", args |-> <<>>, result |-> None]
    /\ UNCHANGED <<idf_cache, file, loaded>>

\* Lines 364-382: one pass of the loop.
BuildAdd ==
    /\ build.pc = "loop"
    /\ build.i < Len(build.documents)
    /\ LET doc == build.documents[build.i + 1]
       IN  /\ add_document(doc.id, BuildTokens(doc), doc)
           /\ calls' = Append(calls, <<doc.id, BuildTokens(doc)>>)
    /\ build' = [build EXCEPT !.i = @ + 1]
    /\ UNCHANGED pruned

\* Lines 384-386: after the loop the average time per document is printed,
\* total_time / len(documents).
BuildTimed ==
    /\ build.pc = "loop"
    /\ build.i = Len(build.documents)
    /\ build' = IF Len(build.documents) = 0
                THEN [build EXCEPT !.pc = "raised", !.error = ZeroDivisionError]
                ELSE [build EXCEPT !.pc = "prune"]
    /\ UNCHANGED <<index, documents, doc_lengths, total_docs, idf_cache, last, file,
                   loaded, history>>

\* Lines 389-398: prune_terms(min_df = min_df), then the reduction is printed,
\* removed_count / initial_terms.
BuildPrune ==
    /\ build.pc = "prune"
    /\ prune_terms(build.min_df, <<1, 1>>)
    /\ pruned' = TRUE
    /\ build' = IF DOMAIN index = {}
                THEN [build EXCEPT !.pc = "raised", !.error = ZeroDivisionError]
                ELSE [build EXCEPT !.pc = "save"]
    /\ UNCHANGED calls

\* Lines 408-409: the snapshot is written when output_file is given.
BuildSave ==
    /\ build.pc = "save"
    /\ IF build.output_file
       THEN save_index
       ELSE UNCHANGED <<index, documents, doc_lengths, total_docs, idf_cache, last,
                        file, loaded>>
    /\ build' = [build EXCEPT !.pc = "return"]
    /\ UNCHANGED history

\* Line 411: return inverted_index.
BuildReturn ==
    /\ build.pc = "return"
    /\ build' = [build EXCEPT !.pc = "returned"]
    /\ last' = [op |-> "build_index_from_documents", args |-> <<>>,
                result |-> [index |-> index, documents |-> documents,
                            doc_lengths |-> doc_lengths, total_docs |-> total_docs]]
    /\ UNCHANGED <<index, documents, doc_lengths, total_docs, idf_cache, file, loaded,
                   history>>

around == <<app, readers, epoch>>

StartAny ==
    /\ last.op = "init"
    /\ \E docs \in Corpora, output_file \in BOOLEAN, min_df \in 0..MaxMinDf :
          BuildStart(docs, output_file, min_df)
    /\ UNCHANGED around

\* One call of build_index_from_documents, statement by statement.
NextBuild ==
    \/ StartAny
    \/ BuildAdd /\ UNCHANGED around
    \/ BuildTimed /\ UNCHANGED around
    \/ BuildPrune /\ UNCHANGED around
    \/ BuildSave /\ UNCHANGED around
    \/ BuildReturn /\ UNCHANGED around

SpecBuild == Init /\ [][NextBuild]_vars

\* C25: the build adds each document with the tokens of its title twice and
\* those of its content once: its length is 2 * |title| + |content|, and the
\* frequency of its posting for a term is twice the occurrences in the title
\* plus the occurrences in the content.
C25_TitleCountsTwice ==
    \A i \in 1..build.i :
        LET doc == build.documents[i]
            freq(t) == 2 * Count(doc.title, t) + Count(doc.content, t)
        IN  /\ doc_lengths[doc.id] = 2 * Len(doc.title) + Len(doc.content)
            /\ \A t \in Terms :
                  IF t \in DOMAIN index
                  THEN /\ FirstFreq(index[t], doc.id) = freq(t)
                       /\ Count([k \in DOMAIN index[t] |-> index[t][k][1]], doc.id)
                              = (IF freq(t) > 0 THEN 1 ELSE 0)
                  ELSE pruned \/ freq(t) = 0

\* A returned store in which a term of a title and of the content of one
\* document has the frequency 3.
C25_Witness ==
    /\ build.pc = "returned"
    /\ \E i \in 1..build.i, t \in DOMAIN index :
          /\ Count(build.documents[i].title, t) = 1
          /\ Count(build.documents[i].content, t) = 1
          /\ FirstFreq(index[t], i) = 3

\* C27: build_index_from_documents calls add_document once per supplied
\* document, in their order, then prune_terms once with the given min_df,
\* after the last addition, and only then saves: it ends by returning the
\* pruned store, the saved snapshot is that store, and nothing is added after
\* the prune.
C27_AddPruneSave ==
    /\ build.pc # "raised"
    /\ calls = [i \in 1..build.i |->
                   <<build.documents[i].id, BuildTokens(build.documents[i])>>]
    /\ pruned => build.i = Len(build.documents)
    /\ build.pc \in {"save", "return", "returned"} => pruned
    /\ file.exists => /\ pruned
                      /\ file.data = IndexData(index, documents, doc_lengths, total_docs)
    /\ build.pc = "returned" =>
          /\ build.output_file => file.exists
          /\ TermsToRemove(index, total_docs, build.min_df, <<1, 1>>) = {}

\* The build of documents without a token: it has pruned and raises before
\* it saves.
C27_Witness ==
    /\ build.pc = "raised"
    /\ build.output_file
    /\ build.i = MaxBuildDocs
    /\ pruned
    /\ ~file.exists

\* Related documents in a session: the store of up to MaxCorpus documents may
\* change between the calls.
NextRelated ==
    \/ /\ last.op \notin ReadOps
       /\ \/ AddWithDoc
          \/ PruneSession
          \/ RelatedAny
    \/ ReturnRead

SpecRelated == Init /\ [][NextRelated]_vars

\* C26: get_related_documents(doc_id, k) returns at most k results, never the
\* reference document, no document twice, in non-increasing order of a
\* strictly positive similarity, and nothing when the vector of the
\* reference document is empty.
C26_RelatedResults ==
    last.op = "get_related_documents" =>
        LET doc_id == last.args[1]
            results == last.result
            terms == CHOOSE s \in Perms(DocTerms(index, doc_id)) : TRUE
        IN  /\ Len(results) <= last.args[2]
            /\ \A i \in DOMAIN results :
                  /\ results[i].doc_id # doc_id
                  /\ results[i].score[1] > 0
            /\ \A i, j \in DOMAIN results :
                  /\ results[i].doc_id = results[j].doc_id => i = j
                  /\ i < j => ~RatLess(results[i].score, results[j].score)
            /\ DOMAIN calculate_document_vector(idf_cache, index, doc_lengths,
                                                total_docs, doc_id, terms) = {}
                  => results = <<>>

\* Two related documents, the second less similar than the first.
C26_Witness ==
    /\ last.op = "get_related_documents"
    /\ Len(last.result) = 2
    /\ RatLess(last.result[2].score, last.result[1].score)

\* ------------------------------------------------------------- IRSystemGUI
\* index, documents, doc_lengths and total_docs are the fields of the store
\* at work: the one under construction while a build runs, the application's
\* own otherwise.  idf_cache is the cache of the application's calculator.
Components == <<app.inverted_index, app.tfidf_calculator, app.search_engine>>

\* A number no object the application can still reach carries.
NewObject ==
    LET used == {app.inverted_index, app.tfidf_calculator.id, app.tfidf_calculator.index,
                 app.search_engine.id, app.search_engine.index, app.search_engine.tfidf,
                 app.before[1], app.before[2].id, app.before[3].id}
    IN  CHOOSE n \in 1..(Cardinality(used) + 1) : n \notin used

\* The data directory as the application finds it: documents with a title and
\* no content.
AppCorpora == {c \in Corpora : \A i \in DOMAIN c : c[i].content = <<>>}

\* Lines 64-66: without documents.json, initialize_system shows an error and
\* returns.
AppStartWithoutDocuments ==
    /\ app.pc = "off"
    /\ app' = [app EXCEPT !.pc = "idle", !.handler = "initialize_system"]
    /\ last' = [op |-> "initialize_system", args |-> <<>>, result |-> "failed"]
    /\ UNCHANGED <<index, documents, doc_lengths, total_docs, idf_cache, file, loaded,
                   history, build>>

\* Lines 72-75: the snapshot exists: a new InvertedIndex loads it.
AppStartLoad ==
    /\ app.pc = "off"
    /\ file.exists
    /\ app' = [app EXCEPT !.pc = "calculator", !.handler = "initialize_system",
                          !.inverted_index = NewObject]
    /\ index' = FromItems(file.data.index)
    /\ documents' = FromItems(file.data.documents)
    /\ doc_lengths' = FromItems(file.data.doc_lengths)
    /\ total_docs' = file.data.total_docs
    /\ last' = [op |-> "load_index", args |-> <<>>, result |-> None]
    /\ UNCHANGED <<idf_cache, file, loaded, history, build>>

\* Lines 76-79: no snapshot: build_index_from_documents(data_dir, index_path).
AppStartBuild ==
    /\ app.pc = "off"
    /\ ~file.exists
    /\ \E docs \in AppCorpora : BuildStart(docs, TRUE, 2)
    /\ app' = [app EXCEPT !.pc = "build", !.handler = "initialize_system"]

\* Lines 561-581: the dialog is cancelled, or the confirmation refused.
RebuildCancel ==
    /\ app.pc = "idle"
    /\ last.op # "search"
    /\ app' = [app EXCEPT !.handler = "rebuild_index_dialog", !.before = Components]
    /\ last' = [op |-> "rebuild_index_dialog", args |-> <<>>, result |-> "cancelled"]
    /\ UNCHANGED <<index, documents, doc_lengths, total_docs, idf_cache, file, loaded,
                   history, build>>

\* Lines 583-595: build_index_from_documents(data_dir, index_path, min_df).
RebuildStart ==
    /\ app.pc = "idle"
    /\ last.op # "search"
    /\ \E docs \in AppCorpora, min_df \in 1..MaxMinDf : BuildStart(docs, TRUE, min_df)
    /\ app' = [app EXCEPT !.pc = "build", !.handler = "rebuild_index_dialog",
                          !.before = Components,
                          !.kept = [index |-> index, documents |-> documents,
                                    doc_lengths |-> doc_lengths,
                                    total_docs |-> total_docs]]

\* Lines 79 and 595: self.inverted_index = the store the build returned.
AppAssignIndex ==
    /\ app.pc = "build"
    /\ build.pc = "returned"
    /\ app' = [app EXCEPT !.pc = "calculator", !.inverted_index = NewObject]
    /\ build' = NoBuild
    /\ UNCHANGED <<index, documents, doc_lengths, total_docs, idf_cache, last, file,
                   loaded, history>>

\* Variant, not the code: the calculator the application already has is kept.
CalculatorKept(a) == a.tfidf_calculator

\* TFIDFCalculator(self.inverted_index)
CalculatorMade(a) == [id |-> NewObject, index |-> a.inverted_index]

\* Lines 82 and 598.  idf_cache is the cache of the application's calculator:
\* that of a new calculator is empty.
AppNewCalculator ==
    /\ app.pc = "calculator"
    /\ app' = [app EXCEPT !.pc = "engine", !.tfidf_calculator = CalculatorMade(app)]
    /\ idf_cache' = IF app'.tfidf_calculator = app.tfidf_calculator THEN idf_cache
                    ELSE Empty
    /\ UNCHANGED <<index, documents, doc_lengths, total_docs, last, file, loaded, history,
                   build>>

\* Lines 85-87 and 599-605: SearchEngine(self.inverted_index,
\* self.tfidf_calculator), and the handler ends.
AppNewEngine ==
    /\ app.pc = "engine"
    /\ app' = [app EXCEPT !.pc = "idle",
                          !.search_engine = [id |-> NewObject,
                                             index |-> app.inverted_index,
                                             tfidf |-> app.tfidf_calculator.id]]
    /\ last' = [op |-> app.handler, args |-> <<>>, result |-> "done"]
    /\ UNCHANGED <<index, documents, doc_lengths, total_docs, idf_cache, file, loaded,
                   history, build>>

\* Lines 89-91 and 607-609: the build raised; nothing was assigned, and the
\* store at work is the application's again.
AppExcept ==
    /\ app.pc = "build"
    /\ build.pc = "raised"
    /\ app' = [app EXCEPT !.pc = "idle"]
    /\ build' = NoBuild
    /\ index' = app.kept.index
    /\ documents' = app.kept.documents
    /\ doc_lengths' = app.kept.doc_lengths
    /\ total_docs' = app.kept.total_docs
    /\ last' = [op |-> app.handler, args |-> <<>>, result |-> "failed"]
    /\ UNCHANGED <<idf_cache, file, loaded, history>>

\* The search button: nothing without a search engine, else its search.
AppSearch ==
    /\ app.pc = "idle"
    /\ app.search_engine.id # 0
    /\ last.op # "search"
    /\ \E q \in Queries : search(q, "vector", MaxDocs)
    /\ UNCHANGED <<history, build, app>>

\* The window is closed; the next start finds the snapshot of this run.
AppQuit ==
    /\ app.pc = "idle"
    /\ last.op # "search"
    /\ app' = NoApp
    /\ index' = Empty
    /\ documents' = Empty
    /\ doc_lengths' = Empty
    /\ total_docs' = 0
    /\ idf_cache' = Empty
    /\ last' = [op |-> "quit", args |-> <<>>, result |-> None]
    /\ UNCHANGED <<file, loaded, history, build>>

Building == app.pc = "build"

NextApp ==
    \/ AppStartWithoutDocuments /\ UNCHANGED <<readers, epoch>>
    \/ AppStartLoad /\ UNCHANGED <<readers, epoch>>
    \/ AppStartBuild /\ UNCHANGED <<readers, epoch>>
    \/ RebuildCancel /\ UNCHANGED <<readers, epoch>>
    \/ RebuildStart /\ UNCHANGED <<readers, epoch>>
    \/ Building /\ BuildAdd /\ UNCHANGED around
    \/ Building /\ BuildTimed /\ UNCHANGED around
    \/ Building /\ BuildPrune /\ UNCHANGED around
    \/ Building /\ BuildSave /\ UNCHANGED around
    \/ Building /\ BuildReturn /\ UNCHANGED around
    \/ AppAssignIndex /\ UNCHANGED <<readers, epoch>>
    \/ AppNewCalculator /\ UNCHANGED <<readers, epoch>>
    \/ AppNewEngine /\ UNCHANGED <<readers, epoch>>
    \/ AppExcept /\ UNCHANGED <<readers, epoch>>
    \/ AppSearch /\ UNCHANGED <<readers, epoch>>
    \/ ReturnApi
    \/ AppQuit /\ UNCHANGED <<readers, epoch>>

SpecApp == Init /\ [][NextApp]_vars

\* C28: between two handlers, whenever the application has a search engine,
\* the store of the engine, the store of the calculator and the store of the
\* application are one store and the engine uses the application's
\* calculator; a rebuild that succeeds has replaced all three and left a
\* calculator with an empty cache; a rebuild that failed or was cancelled has
\* left all three as they were.
C28_OneStore ==
    /\ (app.pc = "idle" /\ app.search_engine.id # 0) =>
          /\ app.inverted_index # 0
          /\ app.search_engine.index = app.inverted_index
          /\ app.tfidf_calculator.index = app.inverted_index
          /\ app.search_engine.tfidf = app.tfidf_calculator.id
    /\ last.op = "rebuild_index_dialog" =>
          IF last.result = "done"
          THEN /\ app.inverted_index # app.before[1]
               /\ app.tfidf_calculator.id # app.before[2].id
               /\ app.search_engine.id # app.before[3].id
               /\ idf_cache = Empty
          ELSE Components = app.before

\* A rebuild has replaced the three components of an application that had a
\* search engine, and the new store holds terms.
C28_Witness ==
    /\ last.op = "rebuild_index_dialog"
    /\ last.result = "done"
    /\ app.before[3].id # 0
    /\ app.search_engine.index = app.inverted_index
    /\ DOMAIN index # {}

\* ------------------------------------------------- snapshots lacking a key
\* The file load_index opens need not come from save_index: here it holds the
\* fields of the store under some of the four keys only.
WriteSnapshot(keys) ==
    /\ file' = [exists |-> TRUE,
                data |-> IndexData(index, documents, doc_lengths, total_docs),
                keys |-> keys]
    /\ last' = [op |-> "write", args |-> <<>>, result |-> None]
    /\ UNCHANGED <<index, documents, doc_lengths, total_docs, idf_cache, loaded>>

PartialAny ==
    /\ \E k \in DataKeys : WriteSnapshot(DataKeys \ {k})
    /\ UNCHANGED <<history, others>>

\* A store is built; snapshots of it, complete or not, are written and loaded
\* into the second store.
NextLoad ==
    \/ ~file.exists /\ (AddWithId \/ PruneSession)
    \/ SaveAny
    \/ PartialAny
    \/ LoadAny

SpecLoad == Init /\ [][NextLoad]_vars

\* C29: a load_index that raises, the file missing or the snapshot lacking
\* one of index, documents, doc_lengths and total_docs, leaves the four
\* fields of the store as they were before the call.
C29_FailedLoadIsAtomic ==
    [][(last'.op = "load_index" /\ last'.result # None) => loaded' = loaded]_vars

\* The snapshot lacks documents: the load has raised KeyError on a new store
\* whose postings are those of the file and whose other fields are untouched.
C29_Witness ==
    /\ last.op = "load_index"
    /\ last.result = KeyError
    /\ file.keys = DataKeys \ {"documents"}
    /\ loaded.index = index
    /\ DOMAIN index # {}
    /\ loaded.documents = <<>>
    /\ loaded.total_docs = 0
    /\ total_docs > 0

\* C30: prune_terms is idempotent: right after a prune with (min_df,
\* max_df_ratio), a second prune with the same arguments finds no term to
\* remove, returns 0 and leaves the store as it is.
C30_PruneIdempotent ==
    [][\A m \in 0..MaxMinDf, r \in Ratios :
          prune_terms(m, r) =>
              LET again == TermsToRemove(index', total_docs', m, r)
              IN  /\ again = {}
                  /\ Cardinality(again) = 0
                  /\ Remove(index', again) = index']_vars

\* A prune that removed nothing, after an earlier one had removed a term of
\* an added document and left another term.
C30_Witness ==
    /\ last.op = "prune_terms"
    /\ last.result = 0
    /\ DOMAIN index # {}
    /\ \E i \in DOMAIN calls : \E t \in Range(calls[i][2]) : t \notin DOMAIN index

=============================================================================
